---------------------------- MODULE Spec2Model ----------------------------
(***************************************************************************)
(* Model of the product indexer (src/index/indexer.py), of the search      *)
(* engine built on it (src/search_engine/search_engine.py) and of the      *)
(* crawler (src/crawler.py).                                               *)
(*                                                                         *)
(* A Python str is a sequence of one-character strings, so that lower(),   *)
(* the punctuation filter, split() and " ".join() are computed character   *)
(* by character.  A dict is a function (its keys are the DOMAIN), a list   *)
(* is a sequence.  `call` is the method call under way with its arguments; *)
(* every method is one action, which runs the pending call to its end and  *)
(* leaves in `ret` what the call returned or the exception it ended in.    *)
(***************************************************************************)
EXTENDS Integers, Sequences, FiniteSets, TLC

VARIABLES
    products_list,    \* Indexer.products_list
    title_index,      \* SearchEngine.title_index
    description_index,\* SearchEngine.description_index
    origin_index,     \* SearchEngine.origin_index
    reviews_index,    \* SearchEngine.reviews_index
    brand_index,      \* SearchEngine.brand_index
    domain_index,     \* SearchEngine.domain_index
    origin_synonyms,  \* SearchEngine.origin_synonyms
    unset,            \* the names of the SearchEngine attributes that are None
    files,            \* the index files of DATA_PATH, by artifact name
    saved,            \* the result files of output/search, by file name
    call,             \* the last method called, with its arguments
    ret,              \* what that call returned or raised
    max_pages,        \* Crawler.max_pages
    pages_visited,    \* Crawler.pages_visited
    visited_urls,     \* Crawler.visited_urls
    queue,            \* Crawler.queue
    disallowed,       \* the URLs Crawler.parser refuses to the user agent
    crawl_results,    \* the local `results` of Crawler.crawl
    fetched,          \* the URLs requests.get was called with, in order
    output            \* what was written to output/results.json, in order

indexer_vars == <<products_list>>
engine_vars == <<title_index, description_index, origin_index, reviews_index,
                 brand_index, domain_index, origin_synonyms, unset>>
file_vars == <<files, saved>>
crawler_vars == <<max_pages, pages_visited, visited_urls, queue, disallowed,
                  crawl_results, fetched, output>>
vars == <<products_list, title_index, description_index, origin_index,
          reviews_index, brand_index, domain_index, origin_synonyms, unset,
          files, saved, call, ret, max_pages, pages_visited, visited_urls,
          queue, disallowed, crawl_results, fetched, output>>

\* no Crawler was constructed
NoCrawler ==
    /\ max_pages = 0
    /\ pages_visited = 0
    /\ visited_urls = {}
    /\ queue = <<>>
    /\ disallowed = {}
    /\ crawl_results = <<>>
    /\ fetched = <<>>
    /\ output = <<>>

-----------------------------------------------------------------------------
(* Bounds of the model. *)

MaxTextLen == 5

-----------------------------------------------------------------------------
(* Python values. *)

Range(s) == {s[i] : i \in DOMAIN s}

\* a normal return of value v
Return(v) == [status |-> "return", value |-> v]
\* an exception of class e leaving the method
Raise(e) == [status |-> "raise", value |-> e]

\* the call has been made and has not returned yet
Pending == [status |-> "pending", value |-> <<>>]

\* the attributes of a SearchEngine right after __init__: every one None
EngineInit ==
    /\ title_index = <<>>
    /\ description_index = <<>>
    /\ origin_index = <<>>
    /\ reviews_index = <<>>
    /\ brand_index = <<>>
    /\ domain_index = <<>>
    /\ origin_synonyms = <<>>
    /\ unset = {"title", "description", "origin", "reviews", "brand", "domain",
                "synonyms"}

-----------------------------------------------------------------------------
(* Characters and str methods. *)

LowerLetters == {"a", "b"}
UpperLetters == {"A"}
Punctuation == {","}
Whitespace == {" "}
Chars == LowerLetters \cup UpperLetters \cup Punctuation \cup Whitespace

\* str.lower() on one character
LowerChar(c) == IF c = "A" THEN "a" ELSE c

\* str.lower()
Lower(s) == [i \in 1..Len(s) |-> LowerChar(s[i])]

IsNotPunctuation(c) == c \notin Punctuation

\* re.sub("[" + re.escape(string.punctuation) + "]", "", text)
StripPunctuation(s) == SelectSeq(s, IsNotPunctuation)

\* str.split(): a left-to-right scan that closes the current word at every
\* whitespace character and never yields an empty word
RECURSIVE SplitScan(_, _, _, _)
SplitScan(s, i, word, words) ==
    IF i > Len(s)
    THEN IF word = <<>> THEN words ELSE Append(words, word)
    ELSE IF s[i] \in Whitespace
         THEN SplitScan(s, i + 1, <<>>,
                        IF word = <<>> THEN words ELSE Append(words, word))
         ELSE SplitScan(s, i + 1, Append(word, s[i]), words)

Split(s) == SplitScan(s, 1, <<>>, <<>>)

\* the strings of at most n characters over alphabet
StringsUpTo(alphabet, n) == UNION {[1..k -> alphabet] : k \in 0..n}

-----------------------------------------------------------------------------
(* Indexer: tokenization. *)

\* Indexer.STOPWORDS, the lines of data/stopwords-en.txt: plain words, and
\* words with an apostrophe-like character that no stripped token can equal
Indexer_STOPWORDS == {<<"a">>, <<"b", ",", "b">>}

NotStopword(token) == token \notin Indexer_STOPWORDS

\* Indexer.tokenize with the lower-casing left out
tokenize_no_lower(text) == SelectSeq(Split(StripPunctuation(text)), NotStopword)

\* Indexer.tokenize with the stopwords filtered before the punctuation is
\* removed, word by word
tokenize_strip_last(text) ==
    LET kept == SelectSeq(Split(Lower(text)), NotStopword)
    IN  [i \in DOMAIN kept |-> StripPunctuation(kept[i])]

\* Indexer.tokenize
tokenize(text) == SelectSeq(Split(StripPunctuation(Lower(text))), NotStopword)

\* list(enumerate(tokens)) filtered: the pairs <<index, token>>, zero-based
RECURSIVE EnumerateFiltered(_, _)
EnumerateFiltered(tokens, i) ==
    IF i > Len(tokens) THEN <<>>
    ELSE IF tokens[i] \notin Indexer_STOPWORDS
         THEN <<<<i - 1, tokens[i]>>>> \o EnumerateFiltered(tokens, i + 1)
         ELSE EnumerateFiltered(tokens, i + 1)

\* tokenize_with_positions numbering the tokens after the stopword filter
RECURSIVE Renumber(_, _)
Renumber(pairs, i) ==
    IF i > Len(pairs) THEN <<>>
    ELSE <<<<i - 1, pairs[i][2]>>>> \o Renumber(pairs, i + 1)

tokenize_with_positions_renumbered(text) ==
    Renumber(EnumerateFiltered(Split(StripPunctuation(Lower(text))), 1), 1)

\* Indexer.tokenize_with_positions
tokenize_with_positions(text) ==
    EnumerateFiltered(Split(StripPunctuation(Lower(text))), 1)

Texts == StringsUpTo(Chars, MaxTextLen)

\* indexer.tokenize(text) runs
Tokenize ==
    /\ call.op = "tokenize"
    /\ ret = Pending
    /\ ret' = Return(tokenize(call.args[1]))
    /\ UNCHANGED <<crawler_vars, indexer_vars, engine_vars, file_vars, call>>

\* indexer.tokenize_with_positions(text) runs
TokenizeWithPositions ==
    /\ call.op = "tokenize_with_positions"
    /\ ret = Pending
    /\ ret' = Return(tokenize_with_positions(call.args[1]))
    /\ UNCHANGED <<crawler_vars, indexer_vars, engine_vars, file_vars, call>>

\* Indexer("...") with nothing parsed yet, and one call of a tokenizer method
InitTokenizer ==
    /\ NoCrawler
    /\ products_list = <<>>
    /\ EngineInit
    /\ files = <<>>
    /\ saved = <<>>
    /\ call \in [op : {"tokenize", "tokenize_with_positions"},
                 args : {<<text>> : text \in Texts}]
    /\ ret = Pending

NextTokenizer == Tokenize \/ TokenizeWithPositions

SpecTokenizer == InitTokenizer /\ [][NextTokenizer]_vars

-----------------------------------------------------------------------------
(* Indexer: the product list.  A Product keeps the url as its id, and the  *)
(* title, description, product_features and product_rewiews of its JSON    *)
(* line (links and variant are read by no index builder).                  *)

None == [py |-> "None"]
PyInt(n) == [py |-> "int", v |-> n]
PyStr(s) == [py |-> "str", v |-> s]
\* a value that is no str (a number, a list)
PyOther == [py |-> "other"]

RECURSIVE GCD(_, _)
GCD(m, n) == IF n = 0 THEN m ELSE GCD(n, m % n)

\* the float m / n, kept exact as a fraction in lowest terms
PyFloat(m, n) == [py |-> "float", num |-> m \div GCD(m, n), den |-> n \div GCD(m, n)]

\* d[k] = v on a dict
DictPut(d, k, v) == [x \in (DOMAIN d) \cup {k} |-> IF x = k THEN v ELSE d[x]]

\* dict.get(k, default), and the value a defaultdict gives for k
DictGet(d, k, default) == IF k \in DOMAIN d THEN d[k] ELSE default

\* the ids (urls) of the documents, in file order
Ids == <<<<"x">>, <<"y">>, <<"z">>>>

Product(id, title, description, features, reviews) ==
    [id |-> id, title |-> title, description |-> description,
     product_features |-> features, product_rewiews |-> reviews]

RECURSIVE SumRatings(_, _)
\* sum(review.get("rating", 0) for review in reviews)
SumRatings(reviews, i) ==
    IF i > Len(reviews) THEN 0
    ELSE DictGet(reviews[i], "rating", 0) + SumRatings(reviews, i + 1)

\* a date string: zero-padded "2020-01-05", not padded "2020-1-5" (strptime
\* reads both), or text that is no date; day orders the dates
DateString(form, day) == [form |-> form, day |-> day]

\* datetime.strptime(s, "%Y-%m-%d") succeeds
ParsesAsDate(s) == s.form \in {"padded", "unpadded"}

\* datetime.strptime(s, "%Y-%m-%d"), as the day it denotes
strptime(s) == s.day

\* the error, if any, of computing the sort keys of reviews, first review first
RECURSIVE SortKeyError(_, _)
SortKeyError(reviews, i) ==
    IF i > Len(reviews) THEN "none"
    ELSE IF "date" \notin DOMAIN reviews[i] THEN "KeyError"
    ELSE IF ~ParsesAsDate(reviews[i].date) THEN "ValueError"
    ELSE SortKeyError(reviews, i + 1)

\* x put into an ascending list before the elements of the same date: a sort
\* that is not stable
RECURSIVE InsertByDateUnstable(_, _)
InsertByDateUnstable(sorted, x) ==
    IF sorted = <<>> THEN <<x>>
    ELSE IF strptime(x.date) <= strptime(Head(sorted).date)
         THEN <<x>> \o sorted
         ELSE <<Head(sorted)>> \o InsertByDateUnstable(Tail(sorted), x)

\* x put into an ascending list after the elements of the same date, as the
\* stable sort of sorted() leaves it
RECURSIVE InsertByDate(_, _)
InsertByDate(sorted, x) ==
    IF sorted = <<>> THEN <<x>>
    ELSE IF strptime(x.date) < strptime(Head(sorted).date)
         THEN <<x>> \o sorted
         ELSE <<Head(sorted)>> \o InsertByDate(Tail(sorted), x)

\* sorted(reviews, key=lambda x: datetime.strptime(x["date"], "%Y-%m-%d")):
\* ascending and stable
RECURSIVE SortedByDate(_, _)
SortedByDate(reviews, n) ==
    IF n = 0 THEN <<>>
    ELSE InsertByDate(SortedByDate(reviews, n - 1), reviews[n])

\* the entry of one product that has reviews
ReviewStats(reviews) ==
    LET total == Len(reviews)
        reviews_sorted == SortedByDate(reviews, Len(reviews))
        last == reviews_sorted[Len(reviews_sorted)]
    IN  [total_reviews |-> total,
         average_rating |-> PyFloat(SumRatings(reviews, 1), total),
         last_rating |-> IF "rating" \in DOMAIN last THEN PyInt(last.rating)
                         ELSE None]

NoReviewStats ==
    [total_reviews |-> 0, average_rating |-> None, last_rating |-> None]

\* the loop of build_reviews_index from product i on; a product whose date
\* cannot be read is skipped instead of ending the build
RECURSIVE ReviewsLoopSkipping(_, _, _)
ReviewsLoopSkipping(products, i, index) ==
    IF i > Len(products) THEN Return(index)
    ELSE LET product == products[i]
             reviews == product.product_rewiews
         IN  IF reviews = <<>>
             THEN ReviewsLoopSkipping(products, i + 1,
                                      DictPut(index, product.id, NoReviewStats))
             ELSE IF SortKeyError(reviews, 1) # "none"
             THEN ReviewsLoopSkipping(products, i + 1, index)
             ELSE ReviewsLoopSkipping(products, i + 1,
                                      DictPut(index, product.id, ReviewStats(reviews)))

\* the loop of build_reviews_index from product i on
RECURSIVE ReviewsLoop(_, _, _)
ReviewsLoop(products, i, index) ==
    IF i > Len(products) THEN Return(index)
    ELSE LET product == products[i]
             reviews == product.product_rewiews
         IN  IF reviews = <<>>
             THEN ReviewsLoop(products, i + 1,
                              DictPut(index, product.id, NoReviewStats))
             ELSE IF SortKeyError(reviews, 1) # "none"
             THEN Raise(SortKeyError(reviews, 1))
             ELSE ReviewsLoop(products, i + 1,
                              DictPut(index, product.id, ReviewStats(reviews)))

\* Indexer.build_reviews_index
build_reviews_index(products) == ReviewsLoop(products, 1, <<>>)

\* the set of tokens one product adds to the index of `feature`, comparing
\* the value as it is written
FeatureTokensAsWritten(product, feature) ==
    {product.product_features[name].v :
        name \in {n \in DOMAIN product.product_features :
                    /\ product.product_features[n].py = "str"
                    /\ n = feature}}

\* the tokens one product adds to the index of `feature`: the loop over
\* features.items() (a dict holds each feature name once)
FeatureTokens(product, feature) ==
    {Lower(product.product_features[name].v) :
        name \in {n \in DOMAIN product.product_features :
                    /\ product.product_features[n].py = "str"
                    /\ n = feature}}

\* features_index, a defaultdict(set), after the products from i on
RECURSIVE FeaturesLoop(_, _, _, _)
FeaturesLoop(products, feature, i, index) ==
    IF i > Len(products) THEN index
    ELSE LET added == FeatureTokens(products[i], feature)
         IN  FeaturesLoop(products, feature, i + 1,
                 [token \in (DOMAIN index) \cup added |->
                     IF token \in added
                     THEN DictGet(index, token, {}) \cup {products[i].id}
                     ELSE index[token]])

\* list(ids) of a set: its elements once each, in an order the set decides
Listings(ids) ==
    {l \in [1..Cardinality(ids) -> ids] : Range(l) = ids}

\* the dicts build_features_index may return: {token: list(ids)}
build_features_index(products, feature) ==
    LET sets == FeaturesLoop(products, feature, 1, <<>>)
    IN  {index \in [DOMAIN sets -> UNION {Listings(sets[t]) : t \in DOMAIN sets}] :
            \A t \in DOMAIN sets : index[t] \in Listings(sets[t])}

\* the inner loop of a positional index builder with each new position put
\* in front of the list
RECURSIVE AddPositionsInFront(_, _, _, _)
AddPositionsInFront(index, product_id, positions_tokens, i) ==
    IF i > Len(positions_tokens) THEN index
    ELSE LET pos == positions_tokens[i][1]
             token == positions_tokens[i][2]
             docs == DictGet(index, token, <<>>)
             old == DictGet(docs, product_id, <<>>)
             new == IF pos \in Range(old) THEN old ELSE <<pos>> \o old
         IN  AddPositionsInFront(DictPut(index, token, DictPut(docs, product_id, new)),
                                 product_id, positions_tokens, i + 1)

\* the inner loop of a positional index builder: index[token][product_id]
\* gets pos appended unless it holds it
RECURSIVE AddPositions(_, _, _, _)
AddPositions(index, product_id, positions_tokens, i) ==
    IF i > Len(positions_tokens) THEN index
    ELSE LET pos == positions_tokens[i][1]
             token == positions_tokens[i][2]
             docs == DictGet(index, token, <<>>)
             old == DictGet(docs, product_id, <<>>)
             new == IF pos \in Range(old) THEN old ELSE Append(old, pos)
         IN  AddPositions(DictPut(index, token, DictPut(docs, product_id, new)),
                          product_id, positions_tokens, i + 1)

\* the outer loop of a positional index builder over the texts of the products
RECURSIVE PositionalLoop(_, _, _, _)
PositionalLoop(products, field, i, index) ==
    IF i > Len(products) THEN index
    ELSE PositionalLoop(products, field, i + 1,
             AddPositions(index, products[i].id,
                          tokenize_with_positions(products[i][field]), 1))

\* Indexer.build_title_positional_index
build_title_positional_index(products) == PositionalLoop(products, "title", 1, <<>>)

\* Indexer.build_desc_positional_index
build_desc_positional_index(products) ==
    PositionalLoop(products, "description", 1, <<>>)

-----------------------------------------------------------------------------
(* Indexer: the documents the index builders are run on. *)

MaxFieldLen == 3
MaxReviews == 2

FieldTexts == StringsUpTo(Chars, MaxFieldLen)

Ratings == {4, 5}
DateStrings == {DateString("padded", 1), DateString("padded", 2),
                DateString("unpadded", 1), DateString("malformed", 1)}

\* a review: a dict with a date and, unless it is missing, a rating
ReviewDicts ==
    [rating : Ratings, date : DateStrings] \cup [date : DateStrings]

ReviewLists == UNION {[1..k -> ReviewDicts] : k \in 0..MaxReviews}

FeatureNames == {"brand", "made in"}
FeatureValues == {PyStr(<<"a">>), PyStr(<<"A">>), PyStr(<<"b">>), PyOther}
FeatureDicts == UNION {[names -> FeatureValues] : names \in SUBSET FeatureNames}

DefaultTitle == <<"b", " ", "a", " ", "b">>
DefaultFeatures == [brand |-> PyStr(<<"A">>)]
DefaultReviews == <<[rating |-> 5, date |-> DateString("padded", 1)]>>

\* the first document: one of its parts ranges over every bounded value
FirstProducts ==
    {Product(Ids[1], t, DefaultTitle, DefaultFeatures, DefaultReviews) :
        t \in FieldTexts}
    \cup {Product(Ids[1], DefaultTitle, t, DefaultFeatures, DefaultReviews) :
        t \in FieldTexts}
    \cup {Product(Ids[1], DefaultTitle, DefaultTitle, f, DefaultReviews) :
        f \in FeatureDicts}
    \cup {Product(Ids[1], DefaultTitle, DefaultTitle, DefaultFeatures, r) :
        r \in ReviewLists}

\* the second document, when there is one
SecondProducts ==
    {Product(Ids[2], <<"b", " ", "b">>, <<"a", " ", "b">>,
             [brand |-> PyStr(<<"a">>), colors |-> PyOther],
             <<[rating |-> 4, date |-> DateString("padded", 2)]>>),
     Product(Ids[2], <<>>, <<"A">>, ("made in" :> PyStr(<<"b">>)), <<>>),
     Product(Ids[2], <<"b">>, <<"b">>, <<>>,
             <<[rating |-> 4, date |-> DateString("malformed", 1)]>>),
     Product(Ids[2], <<"b">>, <<"b">>, <<>>, <<[rating |-> 4]>>)}

ProductLists ==
    {<<>>} \cup {<<p>> : p \in FirstProducts}
           \cup {<<p, q>> : p \in FirstProducts, q \in SecondProducts}

IndexerCalls ==
    {[op |-> "build_reviews_index", args |-> <<>>],
     [op |-> "build_title_positional_index", args |-> <<>>],
     [op |-> "build_desc_positional_index", args |-> <<>>]}
    \cup {[op |-> "build_features_index", args |-> <<f>>] :
            f \in FeatureNames \cup {"colors"}}

\* indexer.build_reviews_index() runs
BuildReviewsIndex ==
    /\ call.op = "build_reviews_index"
    /\ ret = Pending
    /\ ret' = build_reviews_index(products_list)
    /\ UNCHANGED <<crawler_vars, indexer_vars, engine_vars, file_vars, call>>

\* indexer.build_features_index(feature) runs
BuildFeaturesIndex ==
    /\ call.op = "build_features_index"
    /\ ret = Pending
    /\ \E index \in build_features_index(products_list, call.args[1]) :
            ret' = Return(index)
    /\ UNCHANGED <<crawler_vars, indexer_vars, engine_vars, file_vars, call>>

\* indexer.build_title_positional_index() runs
BuildTitlePositionalIndex ==
    /\ call.op = "build_title_positional_index"
    /\ ret = Pending
    /\ ret' = Return(build_title_positional_index(products_list))
    /\ UNCHANGED <<crawler_vars, indexer_vars, engine_vars, file_vars, call>>

\* indexer.build_desc_positional_index() runs
BuildDescPositionalIndex ==
    /\ call.op = "build_desc_positional_index"
    /\ ret = Pending
    /\ ret' = Return(build_desc_positional_index(products_list))
    /\ UNCHANGED <<crawler_vars, indexer_vars, engine_vars, file_vars, call>>

\* an Indexer after parse_jsonl, and one call of an index builder
InitIndexer ==
    /\ NoCrawler
    /\ products_list \in ProductLists
    /\ EngineInit
    /\ files = <<>>
    /\ saved = <<>>
    /\ call \in IndexerCalls
    /\ ret = Pending

NextIndexer ==
    \/ BuildReviewsIndex
    \/ BuildFeaturesIndex
    \/ BuildTitlePositionalIndex
    \/ BuildDescPositionalIndex

SpecIndexer == InitIndexer /\ [][NextIndexer]_vars

-----------------------------------------------------------------------------
(* Reference description of the token stream of a text, by the places of   *)
(* its words rather than by a scan.                                        *)

\* the places of text that hold no punctuation, in order
KeptPlaces(text) == {i \in 1..Len(text) : text[i] \notin Punctuation}

\* the k-th smallest element of a finite set of integers
Nth(S, k) == CHOOSE x \in S : Cardinality({y \in S : y < x}) = k - 1

\* text lower-cased and without its punctuation
Normalized(text) ==
    [k \in 1..Cardinality(KeptPlaces(text)) |->
        LowerChar(text[Nth(KeptPlaces(text), k)])]

\* the maximal runs <<first, last>> of non-whitespace characters of n
Runs(n) ==
    {r \in (1..Len(n)) \X (1..Len(n)) :
        /\ r[1] <= r[2]
        /\ \A k \in r[1]..r[2] : n[k] \notin Whitespace
        /\ r[1] = 1 \/ n[r[1] - 1] \in Whitespace
        /\ r[2] = Len(n) \/ n[r[2] + 1] \in Whitespace}

RunStarts(n) == {r[1] : r \in Runs(n)}

RunAt(n, first) == CHOOSE r \in Runs(n) : r[1] = first

WordAt(n, first) == SubSeq(n, first, RunAt(n, first)[2])

\* the words of the text before the stopword filter, in order
RawWords(text) ==
    LET n == Normalized(text)
    IN  [k \in 1..Cardinality(RunStarts(n)) |-> WordAt(n, Nth(RunStarts(n), k))]

\* the zero-based indices of the raw words that are no stopwords
SurvivingIndices(text) ==
    {k - 1 : k \in {j \in 1..Len(RawWords(text)) :
                        RawWords(text)[j] \notin Indexer_STOPWORDS}}

\* C1: tokenize returns exactly the lower-cased, punctuation-stripped,
\* whitespace-split words of the text that are no stopwords, in their order and
\* with duplicates kept; no stopword is in the output, and the empty text
\* gives the empty sequence.
C1_TokenizeExact ==
    call.op = "tokenize" /\ ret.status = "return" =>
        LET text == call.args[1]
            out == ret.value
            alive == SurvivingIndices(text)
        IN  /\ Len(out) = Cardinality(alive)
            /\ \A k \in 1..Len(out) : out[k] = RawWords(text)[Nth(alive, k) + 1]
            /\ \A k \in 1..Len(out) : out[k] \notin Indexer_STOPWORDS
            /\ text = <<>> => out = <<>>

\* a text with an upper-case stopword that is dropped and a word kept twice
C1_Witness ==
    /\ call.op = "tokenize"
    /\ call.args[1] = <<"A", " ", "b", " ", "b">>
    /\ ret = Return(<<<<"b">>, <<"b">>>>)

\* C2: tokenize_with_positions returns the pairs (p, term) with p the term's
\* zero-based index among the words before the stopword filter; positions are
\* not renumbered, they increase strictly, and the terms are tokenize(text).
C2_PositionsAreRawOffsets ==
    call.op = "tokenize_with_positions" /\ ret.status = "return" =>
        LET text == call.args[1]
            out == ret.value
        IN  /\ \A k \in 1..Len(out) :
                  /\ out[k][1] \in SurvivingIndices(text)
                  /\ out[k][2] = RawWords(text)[out[k][1] + 1]
            /\ {out[k][1] : k \in 1..Len(out)} = SurvivingIndices(text)
            /\ \A k \in 1..(Len(out) - 1) : out[k][1] < out[k + 1][1]
            /\ [k \in 1..Len(out) |-> out[k][2]] = tokenize(text)

\* a stopword in front: the surviving word keeps raw offset 1
C2_Witness ==
    /\ call.op = "tokenize_with_positions"
    /\ call.args[1] = <<"a", " ", "b">>
    /\ ret = Return(<<<<1, <<"b">>>>>>)

-----------------------------------------------------------------------------
(* The index builders. *)

ProductIds == {products_list[i].id : i \in 1..Len(products_list)}

\* the positions a positional index lists for term in document doc
Listed(index, term, doc) ==
    IF term \in DOMAIN index /\ doc \in DOMAIN index[term]
    THEN Range(index[term][doc])
    ELSE {}

\* C3: in a positional index over documents with distinct ids,
\* index[term][doc_id] holds position p if and only if (p, term) is in
\* tokenize_with_positions of the document's field, and every position list
\* is strictly ascending (so without duplicates).
C3_PositionalIndexExact ==
    /\ call.op \in {"build_title_positional_index", "build_desc_positional_index"}
    /\ ret.status = "return"
    => LET field == IF call.op = "build_title_positional_index"
                    THEN "title" ELSE "description"
           index == ret.value
           Occurrences(i) ==
               Range(tokenize_with_positions(products_list[i][field]))
           terms == (DOMAIN index)
                    \cup {o[2] : o \in UNION {Occurrences(i) :
                                                i \in 1..Len(products_list)}}
       IN  /\ \A i \in 1..Len(products_list) : \A term \in terms :
                 Listed(index, term, products_list[i].id)
                     = {o[1] : o \in {x \in Occurrences(i) : x[2] = term}}
           /\ \A term \in DOMAIN index : \A doc \in DOMAIN index[term] :
                 /\ doc \in ProductIds
                 /\ index[term][doc] # <<>>
                 /\ \A k \in 1..(Len(index[term][doc]) - 1) :
                       index[term][doc][k] < index[term][doc][k + 1]

\* two titles: "b a b" keeps b at the raw offsets 0 and 2, "b b" at 0 and 1
C3_Witness ==
    /\ call.op = "build_title_positional_index"
    /\ Len(products_list) = 2
    /\ products_list[1].title = <<"b", " ", "a", " ", "b">>
    /\ products_list[2].title = <<"b", " ", "b">>
    /\ ret = Return((<<"b">> :> (Ids[1] :> <<0, 2>> @@ Ids[2] :> <<0, 1>>)))

\* the ratings of reviews added up, a review without rating counting 0: the
\* number of units <<i, u>> with u among the first rating-many numbers
RatingTotal(reviews) ==
    Cardinality({unit \in (1..Len(reviews))
                              \X (1..(CHOOSE m \in Ratings : \A r \in Ratings : r <= m)) :
                    /\ "rating" \in DOMAIN reviews[unit[1]]
                    /\ unit[2] <= reviews[unit[1]].rating})

\* the place of the review that is last by date, the later place on a tie
LatestPlace(reviews) ==
    CHOOSE j \in 1..Len(reviews) :
        /\ \A i \in 1..Len(reviews) : reviews[i].date.day <= reviews[j].date.day
        /\ \A i \in (j + 1)..Len(reviews) : reviews[i].date.day < reviews[j].date.day

\* C4: build_reviews_index stores {0, None, None} for a document without
\* reviews; otherwise total_reviews is the number of reviews, average_rating
\* is the sum of the ratings (a missing rating counting 0) divided by that
\* number, and last_rating is the rating of the review with the latest date,
\* the last of them in the original order on a tie.
C4_ReviewStatistics ==
    call.op = "build_reviews_index" /\ ret.status = "return" =>
        /\ DOMAIN ret.value = ProductIds
        /\ \A i \in 1..Len(products_list) :
              LET reviews == products_list[i].product_rewiews
                  entry == ret.value[products_list[i].id]
              IN  IF reviews = <<>>
                  THEN entry = [total_reviews |-> 0, average_rating |-> None,
                                last_rating |-> None]
                  ELSE /\ entry.total_reviews = Len(reviews)
                       /\ entry.average_rating.py = "float"
                       /\ entry.average_rating.den > 0
                       /\ entry.average_rating.num * Len(reviews)
                              = entry.average_rating.den * RatingTotal(reviews)
                       /\ LET last == reviews[LatestPlace(reviews)]
                          IN  entry.last_rating =
                                  IF "rating" \in DOMAIN last
                                  THEN PyInt(last.rating) ELSE None

\* two reviews of the same day, written differently, and a review without
\* rating: the later one in the list is the last one
C4_Witness ==
    /\ call.op = "build_reviews_index"
    /\ Len(products_list) = 2
    /\ products_list[1].product_rewiews =
           <<[rating |-> 4, date |-> DateString("padded", 1)],
             [rating |-> 5, date |-> DateString("unpadded", 1)]>>
    /\ products_list[2].product_rewiews = <<>>
    /\ ret = Return(Ids[1] :> [total_reviews |-> 2,
                                average_rating |-> [py |-> "float", num |-> 9, den |-> 2],
                                last_rating |-> PyInt(5)]
                     @@ Ids[2] :> [total_reviews |-> 0, average_rating |-> None,
                                   last_rating |-> None])

\* the review has a date that reads as a year-month-day calendar date
HasValidDate(review) ==
    "date" \in DOMAIN review /\ review.date.form # "malformed"

\* C5: if a review of a document has a date that is no valid year-month-day
\* date, build_reviews_index ends in an error and returns no index: neither
\* the review nor the document is skipped.
C5_MalformedDateIsFatal ==
    call.op = "build_reviews_index" /\ ret # Pending =>
        ((\E i \in 1..Len(products_list) :
            \E k \in 1..Len(products_list[i].product_rewiews) :
                ~HasValidDate(products_list[i].product_rewiews[k]))
         => ret.status = "raise" /\ ret.value \in {"ValueError", "KeyError"})

\* the first document is fine, the second has a malformed date
C5_Witness ==
    /\ call.op = "build_reviews_index"
    /\ Len(products_list) = 2
    /\ products_list[1].product_rewiews =
           <<[rating |-> 5, date |-> DateString("padded", 1)]>>
    /\ products_list[2].product_rewiews =
           <<[rating |-> 4, date |-> DateString("malformed", 1)]>>
    /\ ret = Raise("ValueError")

\* C6: build_features_index(f) lists document d under term t if and only if
\* d's features hold f with a str value whose lower-cased form is t; a
\* document without f, or with a value that is no str, is under no key,
\* documents sharing a value are all under it, and no id is listed twice.
C6_FeaturesIndexExact ==
    call.op = "build_features_index" /\ ret.status = "return" =>
        LET f == call.args[1]
            index == ret.value
            HasTerm(product, t) ==
                /\ f \in DOMAIN product.product_features
                /\ product.product_features[f].py = "str"
                /\ [k \in 1..Len(product.product_features[f].v) |->
                        LowerChar(product.product_features[f].v[k])] = t
        IN  /\ \A t \in (DOMAIN index) \cup StringsUpTo(Chars, 1) :
                \A i \in 1..Len(products_list) :
                    (t \in DOMAIN index /\ products_list[i].id \in Range(index[t]))
                        <=> HasTerm(products_list[i], t)
            /\ \A t \in DOMAIN index :
                  /\ index[t] # <<>>
                  /\ Range(index[t]) \subseteq ProductIds
                  /\ \A j, k \in 1..Len(index[t]) : j # k => index[t][j] # index[t][k]

\* brand "A" of the first document and brand "a" of the second share the key
\* "a"; the colors of the second document, no str, are under no key
C6_Witness ==
    /\ call = [op |-> "build_features_index", args |-> <<"brand">>]
    /\ Len(products_list) = 2
    /\ products_list[1].product_features = [brand |-> PyStr(<<"A">>)]
    /\ products_list[2].product_features =
           [brand |-> PyStr(<<"a">>), colors |-> PyOther]
    /\ ret = Return((<<"a">> :> <<Ids[2], Ids[1]>>))

-----------------------------------------------------------------------------
(* SearchEngine: synonyms and document filters. *)

\* SearchEngine.STOPWORDS, nltk's stopwords.words("english")
SearchEngine_STOPWORDS == {<<"a">>}

\* the names the filters accept
IndexNames == {"title", "description", "origin", "reviews", "brand", "domain"}

\* the attribute a filter reads for index_name
IndexNamed(index_name) ==
    CASE index_name = "title" -> title_index
      [] index_name = "description" -> description_index
      [] index_name = "origin" -> origin_index
      [] index_name = "reviews" -> reviews_index
      [] index_name = "brand" -> brand_index
      [] index_name = "domain" -> domain_index

\* what iterating index[token] gives (set(...), set.update(...)): the keys of
\* a dict (documents of a positional index, fields of a review record), the
\* elements of a list (documents of the origin, brand and domain indices)
Iterated(index_name, value) ==
    IF index_name \in {"title", "description", "reviews"}
    THEN DOMAIN value
    ELSE Range(value)

\* " ".join(tokens)
RECURSIVE Join(_)
Join(tokens) ==
    IF tokens = <<>> THEN <<>>
    ELSE IF Len(tokens) = 1 THEN tokens[1]
    ELSE tokens[1] \o <<" ">> \o Join(Tail(tokens))

\* a synonym table is a dict in file order: a sequence of groups, each a
\* canonical key with its list of synonyms
Group(key, synonyms) == [key |-> key, synonyms |-> synonyms]

Keys(synonyms_mapping) == {synonyms_mapping[i].key : i \in DOMAIN synonyms_mapping}

\* synonyms_mapping[token]
SynonymsOf(synonyms_mapping, token) ==
    (CHOOSE g \in Range(synonyms_mapping) : g.key = token).synonyms

\* the scan of list(synonyms_mapping.values()) from group i on, leaving the
\* canonical key of the group found out
RECURSIVE ScanGroupsWithoutKey(_, _, _, _)
ScanGroupsWithoutKey(synonyms_mapping, token, i, tokens) ==
    IF i > Len(synonyms_mapping) THEN tokens
    ELSE IF token \in Range(synonyms_mapping[i].synonyms)
         THEN tokens \cup Range(synonyms_mapping[i].synonyms)
         ELSE ScanGroupsWithoutKey(synonyms_mapping, token, i + 1, tokens)

\* the scan of list(synonyms_mapping.values()) from group i on: the first
\* group listing the token gives its synonyms and its key, and ends the scan
RECURSIVE ScanGroups(_, _, _, _)
ScanGroups(synonyms_mapping, token, i, tokens) ==
    IF i > Len(synonyms_mapping) THEN tokens
    ELSE IF token \in Range(synonyms_mapping[i].synonyms)
         THEN tokens \cup Range(synonyms_mapping[i].synonyms)
                     \cup {synonyms_mapping[i].key}
         ELSE ScanGroups(synonyms_mapping, token, i + 1, tokens)

\* SearchEngine.get_token_synonyms; list(set(tokens)) is given as the set,
\* its order being the set's
get_token_synonyms(token) ==
    IF "synonyms" \in unset THEN Raise("TypeError")
    ELSE LET lowered == Lower(token)
         IN  IF lowered \in Keys(origin_synonyms)
             THEN Return({lowered}
                         \cup {Lower(syn) :
                                 syn \in Range(SynonymsOf(origin_synonyms, lowered))})
             ELSE Return(ScanGroups(origin_synonyms, lowered, 1, {lowered}))

\* the loop of filter_partial_match from token i on, ending at the first
\* token the index does not hold
RECURSIVE PartialLoopBreaking(_, _, _, _)
PartialLoopBreaking(query_tokens, index_name, i, matching_docs) ==
    IF i > Len(query_tokens) THEN matching_docs
    ELSE IF query_tokens[i] \in DOMAIN IndexNamed(index_name)
         THEN PartialLoopBreaking(query_tokens, index_name, i + 1,
                  matching_docs
                  \cup Iterated(index_name, IndexNamed(index_name)[query_tokens[i]]))
         ELSE matching_docs

\* the loop of filter_partial_match from token i on
RECURSIVE PartialLoop(_, _, _, _)
PartialLoop(query_tokens, index_name, i, matching_docs) ==
    IF i > Len(query_tokens) THEN matching_docs
    ELSE IF query_tokens[i] \in DOMAIN IndexNamed(index_name)
         THEN PartialLoop(query_tokens, index_name, i + 1,
                  matching_docs
                  \cup Iterated(index_name, IndexNamed(index_name)[query_tokens[i]]))
         ELSE PartialLoop(query_tokens, index_name, i + 1, matching_docs)

\* SearchEngine.filter_partial_match; `token in index` on an index that is
\* None is a TypeError
filter_partial_match(query_tokens, index_name) ==
    IF index_name \notin IndexNames THEN Raise("ValueError")
    ELSE IF index_name \in unset /\ query_tokens # <<>> THEN Raise("TypeError")
    ELSE Return(PartialLoop(query_tokens, index_name, 1, {}))

\* the two loops of the origin branch of filter_total_match, at the phrase
\* query_tokens[i:j], with the documents of the phrases intersected
RECURSIVE OriginLoopIntersecting(_, _, _, _)
OriginLoopIntersecting(query_tokens, i, j, found_origin) ==
    IF i >= Len(query_tokens)
    THEN IF found_origin # <<>> THEN found_origin[1] ELSE {}
    ELSE IF j > Len(query_tokens)
         THEN OriginLoopIntersecting(query_tokens, i + 1, i + 2, found_origin)
    ELSE LET phrase == Join(SubSeq(query_tokens, i + 1, j))
         IN  IF phrase \in DOMAIN origin_index
             THEN OriginLoopIntersecting(query_tokens, i, j + 1,
                      IF found_origin = <<>>
                      THEN <<Range(origin_index[phrase])>>
                      ELSE <<found_origin[1] \cap Range(origin_index[phrase])>>)
             ELSE OriginLoopIntersecting(query_tokens, i, j + 1, found_origin)

\* the two loops of the origin branch of filter_total_match, at the phrase
\* " ".join(query_tokens[i:j]), for i in range(n), j in range(i + 1, n + 1);
\* found_origin is <<>> while None, <<set>> afterwards; set() if it stays None
RECURSIVE OriginLoop(_, _, _, _)
OriginLoop(query_tokens, i, j, found_origin) ==
    IF i >= Len(query_tokens)
    THEN IF found_origin # <<>> THEN found_origin[1] ELSE {}
    ELSE IF j > Len(query_tokens)
         THEN OriginLoop(query_tokens, i + 1, i + 2, found_origin)
    ELSE LET phrase == Join(SubSeq(query_tokens, i + 1, j))
         IN  IF phrase \in DOMAIN origin_index
             THEN OriginLoop(query_tokens, i, j + 1,
                      IF found_origin = <<>>
                      THEN <<Range(origin_index[phrase])>>
                      ELSE <<found_origin[1] \cup Range(origin_index[phrase])>>)
             ELSE OriginLoop(query_tokens, i, j + 1, found_origin)

\* the loop of filter_total_match from token i on with a token the index
\* lacks passed over; matching_docs is <<>> while None, <<set>> afterwards
RECURSIVE TotalLoopLenient(_, _, _, _)
TotalLoopLenient(query_tokens, index_name, i, matching_docs) ==
    IF i > Len(query_tokens)
    THEN IF matching_docs # <<>> THEN matching_docs[1] ELSE {}
    ELSE IF query_tokens[i] \in SearchEngine_STOPWORDS
         THEN TotalLoopLenient(query_tokens, index_name, i + 1, matching_docs)
    ELSE IF query_tokens[i] \in DOMAIN IndexNamed(index_name)
         THEN LET token_docs ==
                      Iterated(index_name, IndexNamed(index_name)[query_tokens[i]])
              IN  TotalLoopLenient(query_tokens, index_name, i + 1,
                      IF matching_docs = <<>> THEN <<token_docs>>
                      ELSE <<matching_docs[1] \cap token_docs>>)
         ELSE TotalLoopLenient(query_tokens, index_name, i + 1, matching_docs)

\* the loop of filter_total_match from token i on; matching_docs is <<>>
\* while None, <<set>> afterwards
RECURSIVE TotalLoop(_, _, _, _)
TotalLoop(query_tokens, index_name, i, matching_docs) ==
    IF i > Len(query_tokens)
    THEN IF matching_docs # <<>> THEN matching_docs[1] ELSE {}
    ELSE IF query_tokens[i] \in SearchEngine_STOPWORDS
         THEN TotalLoop(query_tokens, index_name, i + 1, matching_docs)
    ELSE IF query_tokens[i] \in DOMAIN IndexNamed(index_name)
         THEN LET token_docs ==
                      Iterated(index_name, IndexNamed(index_name)[query_tokens[i]])
              IN  TotalLoop(query_tokens, index_name, i + 1,
                      IF matching_docs = <<>> THEN <<token_docs>>
                      ELSE <<matching_docs[1] \cap token_docs>>)
         ELSE {}

\* SearchEngine.filter_total_match; `in index` on an index that is None is a
\* TypeError, met at the first phrase (origin) or the first token that is no
\* stopword (the other indices)
filter_total_match(query_tokens, index_name) ==
    IF index_name \notin IndexNames THEN Raise("ValueError")
    ELSE IF index_name = "origin"
         THEN IF index_name \in unset /\ query_tokens # <<>>
              THEN Raise("TypeError")
              ELSE Return(OriginLoop(query_tokens, 0, 1, <<>>))
    ELSE IF /\ index_name \in unset
            /\ \E i \in 1..Len(query_tokens) :
                   query_tokens[i] \notin SearchEngine_STOPWORDS
         THEN Raise("TypeError")
         ELSE Return(TotalLoop(query_tokens, index_name, 1, <<>>))

-----------------------------------------------------------------------------
(* SearchEngine: the engines the queries are run on. *)

MaxQueryLen == 3
MaxGroups == 2
MaxSynonyms == 2

\* the Product objects of rearranged_products.jsonl, parsed by __init__
Corpus ==
    <<Product(Ids[1], <<"b", " ", "c">>, <<"c", " ", "a", " ", "c">>,
              [brand |-> PyStr(<<"b">>)] @@ ("made in" :> PyStr(<<"b", " ", "c">>)),
              <<>>),
      Product(Ids[2], <<"c">>, <<"b">>,
              [brand |-> PyStr(<<"c">>)] @@ ("made in" :> PyStr(<<"b">>)),
              <<>>),
      Product(Ids[3], <<"c", " ", "b">>, <<"c">>,
              [brand |-> PyStr(<<"b", "b">>)] @@ ("made in" :> PyStr(<<"c">>)),
              <<>>)>>

TermKeys == {<<"a">>, <<"b">>, <<"c">>}
\* the origin index is keyed by phrases
OriginKeys == {<<"b">>, <<"b", " ", "c">>, <<"a", " ", "b">>}

DocLists == {<<Ids[1]>>, <<Ids[2]>>, <<Ids[1], Ids[2]>>}
PositionDicts == {Ids[1] :> <<0>>, Ids[2] :> <<1>>,
                  Ids[1] :> <<0>> @@ Ids[2] :> <<0, 2>>}

\* the term -> [documents] indices over keys
ListIndexes(keys) == UNION {[ks -> DocLists] : ks \in SUBSET keys}
\* the term -> {document: [positions]} indices
PositionalIndexes == UNION {[ks -> PositionDicts] : ks \in SUBSET TermKeys}

\* the sequences of at most n different elements of S
DistinctListsUpTo(S, n) ==
    UNION {{l \in [1..k -> S] : \A i, j \in 1..k : i # j => l[i] # l[j]} :
            k \in 0..n}

SynonymTokens == {<<"a">>, <<"b">>, <<"c">>}
SynonymGroups ==
    {Group(key, synonyms) :
        key \in SynonymTokens,
        synonyms \in DistinctListsUpTo(SynonymTokens, MaxSynonyms) \ {<<>>}}
\* the tables: a dict has each key once
SynonymTables ==
    {table \in DistinctListsUpTo(SynonymGroups, MaxGroups) :
        \A i, j \in DOMAIN table : i # j => table[i].key # table[j].key}

\* the files of data/TP3 as load_indexes reads them
LoadedEngine ==
    [title_index |-> (<<"b">> :> (Ids[1] :> <<0>> @@ Ids[3] :> <<1>>)
                      @@ <<"c">> :> (Ids[1] :> <<1>> @@ Ids[2] :> <<0>>
                                     @@ Ids[3] :> <<0>>)),
     description_index |-> (<<"c">> :> (Ids[1] :> <<0, 2>> @@ Ids[3] :> <<0>>)
                            @@ <<"b">> :> (Ids[2] :> <<0>>)),
     origin_index |-> (<<"b", " ", "c">> :> <<Ids[1]>> @@ <<"b">> :> <<Ids[2]>>
                       @@ <<"c">> :> <<Ids[3]>>),
     reviews_index |-> (Ids[1] :> [total_reviews |-> 2, mean_mark |-> PyFloat(9, 2),
                                   last_rating |-> PyInt(5)]
                        @@ Ids[2] :> [total_reviews |-> 0, mean_mark |-> PyInt(0),
                                      last_rating |-> None]
                        @@ Ids[3] :> [total_reviews |-> 1, mean_mark |-> PyInt(5),
                                      last_rating |-> PyInt(5)]),
     brand_index |-> (<<"b">> :> <<Ids[1]>> @@ <<"c">> :> <<Ids[2]>>
                      @@ <<"b", "b">> :> <<Ids[3]>>),
     domain_index |-> (<<"c">> :> <<Ids[1], Ids[2], Ids[3]>>),
     origin_synonyms |-> <<Group(<<"b">>, <<<<"b", " ", "c">>>>)>>,
     unset |-> {}]

\* the attribute that holds the artifact called name
AttributeOf(name) ==
    IF name = "synonyms" THEN "origin_synonyms" ELSE name \o "_index"

ArtifactNames == IndexNames \cup {"synonyms"}

\* the files load_indexes found, given the attributes it left behind
FilesOf(engine) ==
    [name \in ArtifactNames \ engine.unset |-> engine[AttributeOf(name)]]

\* the engines a call reading the artifact `name` is run on: the artifact
\* ranges over every bounded value, or its file was missing
EnginesReading(name) ==
    {[LoadedEngine EXCEPT ![AttributeOf(name)] = value] :
        value \in CASE name \in {"title", "description"} -> PositionalIndexes
                    [] name = "origin" -> ListIndexes(OriginKeys)
                    [] name \in {"brand", "domain"} -> ListIndexes(TermKeys)
                    [] name = "synonyms" -> SynonymTables
                    [] OTHER -> {LoadedEngine[AttributeOf(name)]}}
    \cup {[LoadedEngine EXCEPT ![AttributeOf(name)] = <<>>, !.unset = {name}]}

QueryTokens == {<<"a">>, <<"b">>, <<"c">>, <<"b", " ", "c">>}
Queries == UNION {[1..k -> QueryTokens] : k \in 0..MaxQueryLen}

FilterCalls ==
    [op : {"filter_partial_match", "filter_total_match"},
     args : Queries \X (IndexNames \cup {"price"})]

\* the filters called on the reviews index, with the ids of documents among
\* the tokens
ReviewFilterCalls ==
    [op : {"filter_partial_match", "filter_total_match"},
     args : {<<query_tokens, "reviews">> :
                query_tokens \in DistinctListsUpTo({Ids[1], Ids[2], <<"b">>}, 2)}]

SynonymCalls ==
    [op : {"get_token_synonyms"},
     args : {<<token>> : token \in QueryTokens \cup {<<"A">>}}]

\* search_engine.get_token_synonyms(token) runs
GetTokenSynonyms ==
    /\ call.op = "get_token_synonyms"
    /\ ret = Pending
    /\ ret' = get_token_synonyms(call.args[1])
    /\ UNCHANGED <<crawler_vars, indexer_vars, engine_vars, file_vars, call>>

\* filter_partial_match gathering the documents in the list the origin
\* index holds for the first token, instead of a set of its own
FilterPartialMatchInPlace ==
    /\ call.op = "filter_partial_match"
    /\ ret = Pending
    /\ ret' = filter_partial_match(call.args[1], call.args[2])
    /\ LET query_tokens == call.args[1]
       IN  origin_index' =
               IF /\ call.args[2] = "origin"
                  /\ "origin" \notin unset
                  /\ Len(query_tokens) >= 2
                  /\ query_tokens[1] \in DOMAIN origin_index
                  /\ query_tokens[2] \in DOMAIN origin_index
               THEN [origin_index EXCEPT ![query_tokens[1]] =
                                             @ \o origin_index[query_tokens[2]]]
               ELSE origin_index
    /\ UNCHANGED <<crawler_vars, indexer_vars, title_index, description_index, reviews_index,
                   brand_index, domain_index, origin_synonyms, unset, file_vars,
                   call>>

\* search_engine.filter_partial_match(query_tokens, index_name) runs
FilterPartialMatch ==
    /\ call.op = "filter_partial_match"
    /\ ret = Pending
    /\ ret' = filter_partial_match(call.args[1], call.args[2])
    /\ UNCHANGED <<crawler_vars, indexer_vars, engine_vars, file_vars, call>>

\* search_engine.filter_total_match(query_tokens, index_name) runs
FilterTotalMatch ==
    /\ call.op = "filter_total_match"
    /\ ret = Pending
    /\ ret' = filter_total_match(call.args[1], call.args[2])
    /\ UNCHANGED <<crawler_vars, indexer_vars, engine_vars, file_vars, call>>

\* a SearchEngine after __init__ and load_indexes, and one call of a query
\* method
InitSearch ==
    /\ NoCrawler
    /\ products_list = Corpus
    /\ call \in FilterCalls \cup ReviewFilterCalls \cup SynonymCalls
    /\ ret = Pending
    /\ \E engine \in EnginesReading(IF call.op = "get_token_synonyms"
                                    THEN "synonyms"
                                    ELSE IF call.args[2] \in IndexNames
                                         THEN call.args[2] ELSE "title") :
          /\ title_index = engine.title_index
          /\ description_index = engine.description_index
          /\ origin_index = engine.origin_index
          /\ reviews_index = engine.reviews_index
          /\ brand_index = engine.brand_index
          /\ domain_index = engine.domain_index
          /\ origin_synonyms = engine.origin_synonyms
          /\ unset = engine.unset
          /\ files = FilesOf(engine)
    /\ saved = <<>>

NextSearch == GetTokenSynonyms \/ FilterPartialMatch \/ FilterTotalMatch

SpecSearch == InitSearch /\ [][NextSearch]_vars

-----------------------------------------------------------------------------
(* Synonyms and filters. *)

\* C7: get_token_synonyms(t) holds lower(t); if lower(t) is a canonical key
\* the result is that key with all its synonyms; otherwise, if some group
\* lists lower(t) as a synonym, it is the whole first such group in table
\* order, synonyms and key; otherwise it is {lower(t)} alone.
C7_SynonymExpansion ==
    call.op = "get_token_synonyms" /\ "synonyms" \notin unset /\ ret # Pending =>
        LET token == [k \in 1..Len(call.args[1]) |-> LowerChar(call.args[1][k])]
            table == origin_synonyms
            listing == {i \in 1..Len(table) : token \in Range(table[i].synonyms)}
        IN  /\ ret.status = "return"
            /\ token \in ret.value
            /\ IF \E i \in 1..Len(table) : table[i].key = token
               THEN \E i \in 1..Len(table) :
                       /\ table[i].key = token
                       /\ ret.value = {token} \cup Range(table[i].synonyms)
               ELSE IF listing # {}
               THEN LET first == CHOOSE i \in listing : \A j \in listing : i <= j
                    IN  ret.value = Range(table[first].synonyms) \cup {table[first].key}
               ELSE ret.value = {token}

\* "A" is no key; the groups of b and of c both list a, and the first wins
C7_Witness ==
    /\ call = [op |-> "get_token_synonyms", args |-> <<<<"A">>>>]
    /\ origin_synonyms = <<Group(<<"b">>, <<<<"a">>>>),
                           Group(<<"c">>, <<<<"a">>, <<"b">>>>)>>
    /\ ret = Return({<<"a">>, <<"b">>})

TermIndexNames == {"title", "description", "origin", "brand", "domain"}

\* the documents a term index lists for one of its keys
DocumentsOf(index_name, key) ==
    IF index_name \in {"title", "description"}
    THEN DOMAIN IndexNamed(index_name)[key]
    ELSE {IndexNamed(index_name)[key][k] :
            k \in 1..Len(IndexNamed(index_name)[key])}

\* C8: on a term index, filter_partial_match returns exactly the union of
\* index[token] over the tokens that are keys of the index; a token the
\* index lacks adds nothing and raises nothing, and no token gives set().
C8_PartialMatchIsUnion ==
    /\ call.op = "filter_partial_match"
    /\ call.args[2] \in TermIndexNames \ unset
    /\ ret # Pending
    => LET query_tokens == call.args[1]
           index_name == call.args[2]
       IN  /\ ret = Return(UNION {DocumentsOf(index_name, token) :
                               token \in Range(query_tokens)
                                         \cap DOMAIN IndexNamed(index_name)})
           /\ query_tokens = <<>> => ret.value = {}

\* c and b are brands, the phrase between them is no key of the index
C8_Witness ==
    /\ call = [op |-> "filter_partial_match",
               args |-> <<<<<<"c">>, <<"b", " ", "c">>, <<"b">>>>, "brand">>]
    /\ brand_index = (<<"b">> :> <<Ids[1]>> @@ <<"c">> :> <<Ids[2]>>)
    /\ ret = Return({Ids[1], Ids[2]})

\* C9: on an index other than origin, filter_total_match returns the
\* intersection of index[token] over the tokens that are no stopwords, and
\* set() when such a token is no key of the index or when none is left.
C9_TotalMatchIsIntersection ==
    /\ call.op = "filter_total_match"
    /\ call.args[2] \in (TermIndexNames \ {"origin"}) \ unset
    /\ ret # Pending
    => LET query_tokens == call.args[1]
           index_name == call.args[2]
           index == IndexNamed(index_name)
           live == Range(query_tokens) \ SearchEngine_STOPWORDS
           listed == UNION {DocumentsOf(index_name, key) : key \in DOMAIN index}
       IN  ret = Return(IF live = {} \/ \E token \in live : token \notin DOMAIN index
                        THEN {}
                        ELSE {doc \in listed :
                                \A token \in live :
                                    doc \in DocumentsOf(index_name, token)})

\* a is a stopword and no key of the index; b and c share the first document
C9_Witness ==
    /\ call = [op |-> "filter_total_match",
               args |-> <<<<<<"a">>, <<"b">>, <<"c">>>>, "title">>]
    /\ title_index = (<<"b">> :> (Ids[1] :> <<0>> @@ Ids[2] :> <<0, 2>>)
                      @@ <<"c">> :> (Ids[1] :> <<0>>))
    /\ ret = Return({Ids[1]})

\* C10: on the origin index, filter_total_match returns the union of
\* index[phrase] over the contiguous sub-sequences tokens[i:j], 0 <= i < j <= n,
\* joined by single spaces, that are keys of the index, and set() when none
\* is; the tokens are not intersected one by one.
C10_OriginMatchIsPhraseUnion ==
    /\ call.op = "filter_total_match"
    /\ call.args[2] = "origin"
    /\ "origin" \notin unset
    /\ ret # Pending
    => LET query_tokens == call.args[1]
           n == Len(query_tokens)
           hit == {key \in DOMAIN origin_index :
                     \E i \in 0..(n - 1) : \E j \in (i + 1)..n :
                         key = Join(SubSeq(query_tokens, i + 1, j))}
       IN  /\ ret = Return(UNION {DocumentsOf("origin", key) : key \in hit})
           /\ hit = {} => ret.value = {}

\* [a, b, c]: the index holds the phrases "b" and "b c" but no "a"
C10_Witness ==
    /\ call = [op |-> "filter_total_match",
               args |-> <<<<<<"a">>, <<"b">>, <<"c">>>>, "origin">>]
    /\ origin_index = (<<"b">> :> <<Ids[2]>> @@ <<"b", " ", "c">> :> <<Ids[1]>>)
    /\ ret = Return({Ids[1], Ids[2]})

-----------------------------------------------------------------------------
(* Total match against partial match. *)

\* C11: for every index name the filters accept, origin with its phrase
\* keys included, and every token sequence, what filter_total_match returns
\* is a subset of what filter_partial_match returns on the same tokens and
\* index.
C11_TotalWithinPartial ==
    /\ call.op = "filter_total_match"
    /\ call.args[2] \in IndexNames \ unset
    /\ ret # Pending
    => LET partial == filter_partial_match(call.args[1], call.args[2])
       IN  /\ ret.status = "return"
           /\ partial.status = "return"
           /\ ret.value \subseteq partial.value

-----------------------------------------------------------------------------
(* SearchEngine.load_indexes. *)

\* the attributes of the SearchEngine as they are now
CurrentEngine ==
    [title_index |-> title_index,
     description_index |-> description_index,
     origin_index |-> origin_index,
     reviews_index |-> reviews_index,
     brand_index |-> brand_index,
     domain_index |-> domain_index,
     origin_synonyms |-> origin_synonyms,
     unset |-> unset]

\* the order in which load_indexes reads the seven files
LoadOrder ==
    <<"title", "description", "origin", "reviews", "brand", "domain", "synonyms">>

\* indexer.load_index_from_json on the file of the artifact `name`: open()
\* raises FileNotFoundError when the file is not there
load_index_from_json(name) ==
    IF name \in DOMAIN files THEN Return(files[name])
    ELSE Raise("FileNotFoundError")

\* one try block around the seven loads: the first missing file ends them
RECURSIVE LoadUntilMissing(_, _)
LoadUntilMissing(i, engine) ==
    IF i > Len(LoadOrder) THEN engine
    ELSE LET name == LoadOrder[i]
             loaded == load_index_from_json(name)
         IN  IF loaded.status = "return"
             THEN LoadUntilMissing(i + 1,
                      [engine EXCEPT ![AttributeOf(name)] = loaded.value,
                                     !.unset = @ \ {name}])
             ELSE engine

\* the seven try/except blocks from the i-th on: a loaded file is assigned
\* to its attribute, a FileNotFoundError is logged and the attribute is left
RECURSIVE LoadFrom(_, _)
LoadFrom(i, engine) ==
    IF i > Len(LoadOrder) THEN engine
    ELSE LET name == LoadOrder[i]
             loaded == load_index_from_json(name)
         IN  LoadFrom(i + 1,
                 IF loaded.status = "return"
                 THEN [engine EXCEPT ![AttributeOf(name)] = loaded.value,
                                     !.unset = @ \ {name}]
                 ELSE engine)

\* the index files with no entry at all
EmptyFiles == [name \in ArtifactNames |-> <<>>]

\* the states of DATA_PATH: any of the seven files may be missing
FileSystems ==
    {[name \in present |-> contents[name]] :
        present \in SUBSET ArtifactNames,
        contents \in {FilesOf(LoadedEngine), EmptyFiles}}

\* search_engine.load_indexes() runs
LoadIndexes ==
    /\ call.op = "load_indexes"
    /\ ret = Pending
    /\ LET engine == LoadFrom(1, CurrentEngine)
       IN  /\ title_index' = engine.title_index
           /\ description_index' = engine.description_index
           /\ origin_index' = engine.origin_index
           /\ reviews_index' = engine.reviews_index
           /\ brand_index' = engine.brand_index
           /\ domain_index' = engine.domain_index
           /\ origin_synonyms' = engine.origin_synonyms
           /\ unset' = engine.unset
    /\ ret' = Return(None)
    /\ UNCHANGED <<crawler_vars, indexer_vars, file_vars, call>>

\* a SearchEngine right after __init__, and the call of load_indexes
InitLoad ==
    /\ NoCrawler
    /\ products_list = Corpus
    /\ EngineInit
    /\ files \in FileSystems
    /\ saved = <<>>
    /\ call = [op |-> "load_indexes", args |-> <<>>]
    /\ ret = Pending

NextLoad == LoadIndexes

SpecLoad == InitLoad /\ [][NextLoad]_vars

\* C13: whichever of the seven files are missing, load_indexes raises
\* nothing, leaves exactly the missing artifacts unset (None) and loads
\* every artifact whose file is there, wherever the missing ones stand in
\* the load order.
C13_MissingFilesAreIndependent ==
    call.op = "load_indexes" /\ ret # Pending =>
        /\ ret = Return(None)
        /\ unset = ArtifactNames \ DOMAIN files
        /\ \A name \in DOMAIN files :
               CurrentEngine[AttributeOf(name)] = files[name]
        /\ \A name \in ArtifactNames \ DOMAIN files :
               CurrentEngine[AttributeOf(name)] = <<>>

\* the second and the fifth file are missing; the files after them are read
C13_Witness ==
    /\ DOMAIN files = ArtifactNames \ {"description", "brand"}
    /\ ret = Return(None)
    /\ unset = {"description", "brand"}
    /\ origin_index = LoadedEngine.origin_index
    /\ origin_synonyms = LoadedEngine.origin_synonyms

-----------------------------------------------------------------------------
(* Numbers.  A Python number is kept in fixed point, as the integer count  *)
(* of its units of 1 / Scale, and every operation rounds down to a unit.   *)

Scale == 1000

\* the int n
Fx(n) == n * Scale
\* a * b and a / b
Mul(a, b) == (a * b) \div Scale
Div(a, b) == (a * Scale) \div b
\* max(a, b)
Max(a, b) == IF a >= b THEN a ELSE b

\* the number a JSON value of a review record holds
Number(value) ==
    IF value.py = "int" THEN Fx(value.v)
    ELSE (value.num * Scale) \div value.den

\* ln(x) for 1 <= x <= 2, by the series 2 (z + z^3/3 + z^5/5 + z^7/7) of
\* z = (x - 1) / (x + 1), which is at most 1/3 there
LogNearOne(x) ==
    LET z == Div(x - Scale, x + Scale)
        z2 == Mul(z, z)
        z3 == Mul(z, z2)
        z5 == Mul(z3, z2)
        z7 == Mul(z5, z2)
    IN  2 * (z + z3 \div 3 + z5 \div 5 + z7 \div 7)

\* math.log(x) for x > 0: x is halved or doubled into 1 <= x < 2
RECURSIVE math_log(_)
math_log(x) ==
    IF x >= 2 * Scale THEN math_log(x \div 2) + LogNearOne(2 * Scale)
    ELSE IF x < Scale THEN math_log(2 * x) - LogNearOne(2 * Scale)
    ELSE LogNearOne(x)

-----------------------------------------------------------------------------
(* SearchEngine: BM25. *)

\* list.count(x)
Count(list, x) == Cardinality({i \in DOMAIN list : list[i] = x})

\* indexer.get_product_by_id(doc_id): the product of the document store
\* whose id is doc_id
get_product_by_id(doc_id) ==
    products_list[CHOOSE i \in DOMAIN products_list : products_list[i].id = doc_id]

\* SearchEngine.get_doc_length
get_doc_length(str) == Len(tokenize(str))

RECURSIVE SumLengths(_, _, _)
\* sum(avg_len), avg_len holding the length of the field of every product
SumLengths(list_products, doc_field, i) ==
    IF i > Len(list_products) THEN 0
    ELSE get_doc_length(list_products[i][doc_field])
         + SumLengths(list_products, doc_field, i + 1)

\* SearchEngine.get_avg_doc_length
get_avg_doc_length(doc_field) ==
    IF doc_field \notin {"title", "description"} THEN Raise("ValueError")
    ELSE IF products_list = <<>> THEN Raise("ZeroDivisionError")
    ELSE Return(Div(Fx(SumLengths(products_list, doc_field, 1)),
                    Fx(Len(products_list))))

\* the fields compute_bm25 and get_freq know
Bm25Fields == {"title", "description", "origin", "brand", "domain"}

\* [product_features[feature]].count(token): the raw value of the feature
\* is compared with the token
FeatureCount(product, feature, token) ==
    IF feature \notin DOMAIN product.product_features THEN Raise("KeyError")
    ELSE Return(IF product.product_features[feature] = PyStr(token)
                THEN 1 ELSE 0)

\* SearchEngine.get_freq
get_freq(token, doc_id, doc_field) ==
    IF doc_field = "title"
    THEN Return(Count(tokenize(get_product_by_id(doc_id).title), token))
    ELSE IF doc_field = "description"
    THEN Return(Count(tokenize(get_product_by_id(doc_id).description), token))
    ELSE IF doc_field = "origin"
    THEN FeatureCount(get_product_by_id(doc_id), "made in", token)
    ELSE IF doc_field = "brand"
    THEN FeatureCount(get_product_by_id(doc_id), "brand", token)
    ELSE IF doc_field = "domain" THEN Return(0)
    ELSE Raise("ValueError")

\* the defaults k1=1.5 and b=0.75 of compute_bm25
k1 == (3 * Scale) \div 2
b == (3 * Scale) \div 4

\* the classic idf, without the 1 added inside the logarithm
IdfWithoutOne(total_docs, doc_freq) ==
    math_log(Div(Fx(total_docs - doc_freq) + Scale \div 2,
                 Fx(doc_freq) + Scale \div 2))

\* idf = math.log((total_docs - doc_freq + 0.5) / (doc_freq + 0.5) + 1)
Idf(total_docs, doc_freq) ==
    math_log(Div(Fx(total_docs - doc_freq) + Scale \div 2,
                 Fx(doc_freq) + Scale \div 2) + Fx(1))

\* what one matching token adds to the score: idf * (numerator / denominator)
Bm25Term(freq, doc_freq, total_docs, doc_length, avg_doc_length) ==
    LET idf == Idf(total_docs, doc_freq)
        numerator == Mul(Fx(freq), k1 + Fx(1))
        denominator ==
            Fx(freq) + Mul(k1, Fx(1) - b + Mul(b, Div(doc_length, avg_doc_length)))
    IN  Mul(idf, Div(numerator, denominator))

\* the loop of compute_bm25 from token i on; `token in index` on an index
\* that is None is a TypeError, a zero average length a ZeroDivisionError
RECURSIVE Bm25Loop(_, _, _, _, _, _, _)
Bm25Loop(query_tokens, doc_id, doc_field, doc_length, avg_doc_length, i, score) ==
    IF i > Len(query_tokens) THEN Return(score)
    ELSE IF doc_field \in unset THEN Raise("TypeError")
    ELSE LET token == query_tokens[i]
             index == IndexNamed(doc_field)
         IN  IF token \in DOMAIN index /\ doc_id \in Iterated(doc_field, index[token])
             THEN LET freq == get_freq(token, doc_id, doc_field)
                      doc_freq == IF doc_field \in {"title", "description"}
                                  THEN Cardinality(DOMAIN index[token])
                                  ELSE Len(index[token])
                  IN  IF freq.status = "raise" THEN freq
                      ELSE IF avg_doc_length = 0 THEN Raise("ZeroDivisionError")
                      ELSE Bm25Loop(query_tokens, doc_id, doc_field, doc_length,
                               avg_doc_length, i + 1,
                               score + Bm25Term(freq.value, doc_freq,
                                                Len(products_list), doc_length,
                                                avg_doc_length))
             ELSE Bm25Loop(query_tokens, doc_id, doc_field, doc_length,
                           avg_doc_length, i + 1, score)

\* compute_bm25 taking every field name for a field of length 1
compute_bm25_any_field(query_tokens, product, doc_field) ==
    IF doc_field \notin IndexNames THEN Return(0)
    ELSE Bm25Loop(query_tokens, product.id, doc_field, Fx(1), Fx(1), 1, 0)

\* SearchEngine.compute_bm25 with the default k1 and b
compute_bm25(query_tokens, product, doc_field) ==
    IF doc_field \in {"title", "description"}
    THEN LET avg_doc_length == get_avg_doc_length(doc_field)
         IN  IF avg_doc_length.status = "raise" THEN avg_doc_length
             ELSE Bm25Loop(query_tokens, product.id, doc_field,
                           Fx(get_doc_length(product[doc_field])),
                           avg_doc_length.value, 1, 0)
    ELSE IF doc_field \in {"origin", "brand", "domain"}
    THEN Bm25Loop(query_tokens, product.id, doc_field, Fx(1), Fx(1), 1, 0)
    ELSE Raise("ValueError")

-----------------------------------------------------------------------------
(* SearchEngine: query expansion, candidates and ranking. *)

\* the lists list(set(...)) can give for the set S: its elements once each,
\* in an order the hash seed of the process decides
Orderings(S) == {l \in [1..Cardinality(S) -> S] : Range(l) = S}

\* the loop of get_query_tokens_with_synonyms from token i on: the lists
\* it can build
RECURSIVE Expansions(_, _)
Expansions(query_tokens, i) ==
    IF i > Len(query_tokens) THEN {<<>>}
    ELSE {head \o rest :
            head \in Orderings(get_token_synonyms(query_tokens[i]).value),
            rest \in Expansions(query_tokens, i + 1)}

\* SearchEngine.get_query_tokens_with_synonyms: the lists it can return
get_query_tokens_with_synonyms(query) ==
    LET query_tokens == tokenize(query)
    IN  IF query_tokens # <<>> /\ "synonyms" \in unset THEN Raise("TypeError")
        ELSE Return(Expansions(query_tokens, 1))

\* the outcome of a statement that runs after `done` and adds `result` to
\* matching_docs: the first exception ends the method
Update(done, result) ==
    IF done.status = "raise" THEN done
    ELSE IF result.status = "raise" THEN result
    ELSE Return(done.value \cup result.value)

\* the first loop of get_matching_docs from token i on
RECURSIVE TokenLoop(_, _, _)
TokenLoop(query_tokens, i, matching_docs) ==
    IF i > Len(query_tokens) \/ matching_docs.status = "raise" THEN matching_docs
    ELSE TokenLoop(query_tokens, i + 1,
             Update(Update(matching_docs,
                           filter_total_match(<<query_tokens[i]>>, "brand")),
                    filter_total_match(<<query_tokens[i]>>, "origin")))

\* get_matching_docs without the brand of each token
MatchingDocsWithoutBrand(query_tokens) ==
    Update(Update(Update(Update(Return({}),
        filter_total_match(query_tokens, "origin")),
        filter_total_match(query_tokens, "domain")),
        filter_partial_match(query_tokens, "title")),
        filter_partial_match(query_tokens, "description"))

\* get_matching_docs once the query is expanded into query_tokens
MatchingDocs(query_tokens) ==
    Update(Update(Update(Update(TokenLoop(query_tokens, 1, Return({})),
        filter_total_match(query_tokens, "origin")),
        filter_total_match(query_tokens, "domain")),
        filter_partial_match(query_tokens, "title")),
        filter_partial_match(query_tokens, "description"))

\* sum(1 for token in query_tokens if token in index and doc_id in index[token])
MatchCount(query_tokens, doc_id, index) ==
    Cardinality({i \in DOMAIN query_tokens :
                    /\ query_tokens[i] \in DOMAIN index
                    /\ doc_id \in DOMAIN index[query_tokens[i]]})

\* min(positions) if positions else 9999
FirstPosition(positions) ==
    IF positions # <<>>
    THEN CHOOSE p \in Range(positions) : \A q \in Range(positions) : p <= q
    ELSE 9999

\* the position loop of get_custom_score from token i on, for one of the
\* two fields: every matched token overwrites the score of the field
RECURSIVE PositionLoop(_, _, _, _, _)
PositionLoop(query_tokens, doc_id, index, i, pos_score) ==
    IF i > Len(query_tokens) THEN pos_score
    ELSE IF /\ query_tokens[i] \in DOMAIN index
            /\ doc_id \in DOMAIN index[query_tokens[i]]
         THEN PositionLoop(query_tokens, doc_id, index, i + 1,
                  Div(Fx(100), Fx(1 + FirstPosition(index[query_tokens[i]][doc_id]))))
         ELSE PositionLoop(query_tokens, doc_id, index, i + 1, pos_score)

\* get_custom_score once the query is expanded into query_tokens; a lookup
\* in an index that is None and None * 2 are TypeErrors
CustomScore(query_tokens, doc_id) ==
    IF query_tokens # <<>> /\ "title" \in unset THEN Raise("TypeError")
    ELSE IF query_tokens # <<>> /\ "description" \in unset THEN Raise("TypeError")
    ELSE IF "reviews" \in unset THEN Raise("TypeError")
    ELSE IF doc_id \notin DOMAIN reviews_index THEN Raise("KeyError")
    ELSE LET review_data == reviews_index[doc_id]
             title_match == MatchCount(query_tokens, doc_id, title_index)
             desc_match == MatchCount(query_tokens, doc_id, description_index)
             title_pos_score == PositionLoop(query_tokens, doc_id, title_index, 1, 0)
             desc_pos_score ==
                 PositionLoop(query_tokens, doc_id, description_index, 1, 0)
         IN  IF "mean_mark" \notin DOMAIN review_data THEN Raise("KeyError")
             ELSE IF review_data.mean_mark = None THEN Raise("TypeError")
             ELSE Return(Fx(title_match * 2 + desc_match)
                         + Mul(Number(review_data.mean_mark), Fx(2))
                         + math_log(Fx(1 + review_data.total_reviews))
                         + Mul(title_pos_score, (4 * Scale) \div 10)
                         + Mul(desc_pos_score, (6 * Scale) \div 10))

\* the five compute_bm25 calls of rank_docs from the i-th field on
RECURSIVE Bm25Sum(_, _, _, _)
Bm25Sum(query_tokens, product, i, bm_25_score) ==
    LET fields == <<"title", "description", "origin", "brand", "domain">>
    IN  IF i > Len(fields) THEN Return(bm_25_score)
        ELSE LET field_score == compute_bm25(query_tokens, product, fields[i])
             IN  IF field_score.status = "raise" THEN field_score
                 ELSE Bm25Sum(query_tokens, product, i + 1,
                              bm_25_score + field_score.value)

\* the loop of rank_docs over the documents in the order `docs` the set
\* gives them; scores is the dict as the list of its items
RECURSIVE RankLoop(_, _, _, _)
RankLoop(query_tokens, docs, i, scores) ==
    IF i > Len(docs) THEN Return(scores)
    ELSE LET doc_id == docs[i]
             bm_25_score == Bm25Sum(query_tokens, get_product_by_id(doc_id), 1, 0)
             custom_score == CustomScore(query_tokens, doc_id)
         IN  IF bm_25_score.status = "raise" THEN bm_25_score
             ELSE IF custom_score.status = "raise" THEN custom_score
             ELSE RankLoop(query_tokens, docs, i + 1,
                      Append(scores,
                             [id |-> doc_id,
                              score |-> bm_25_score.value
                                        + math_log(Max(Scale \div 10,
                                                       custom_score.value))]))

\* where sorted(..., reverse=True) puts an item among the items sorted so
\* far, were the scores in ascending order
InsertAscending(sorted, item) ==
    LET k == Cardinality({j \in DOMAIN sorted : sorted[j].score <= item.score})
    IN  SubSeq(sorted, 1, k) \o <<item>> \o SubSeq(sorted, k + 1, Len(sorted))

\* where sorted(..., reverse=True) puts an item among the items sorted so
\* far: behind the items of a higher or of the same score
InsertByScore(sorted, item) ==
    LET k == Cardinality({j \in DOMAIN sorted : sorted[j].score >= item.score})
    IN  SubSeq(sorted, 1, k) \o <<item>> \o SubSeq(sorted, k + 1, Len(sorted))

\* sorted(dict_score.items(), key=lambda item: item[1], reverse=True)
RECURSIVE SortedByScore(_, _, _)
SortedByScore(items, i, sorted) ==
    IF i > Len(items) THEN sorted
    ELSE SortedByScore(items, i + 1, InsertByScore(sorted, items[i]))

\* list[:limit]
Slice(list, limit) ==
    IF limit >= 0
    THEN SubSeq(list, 1, IF limit <= Len(list) THEN limit ELSE Len(list))
    ELSE SubSeq(list, 1, Max(0, Len(list) + limit))

\* product.to_json() with its "score" entry: the whole record of the product
to_json(product, score) == [score |-> score] @@ product

\* the loop of search over ordered_score from the i-th document on
RECURSIVE ProductsLoop(_, _)
ProductsLoop(ordered_score, i) ==
    IF i > Len(ordered_score) THEN <<>>
    ELSE <<to_json(get_product_by_id(ordered_score[i].id), ordered_score[i].score)>>
         \o ProductsLoop(ordered_score, i + 1)

\* re.sub("\W+", " ", query).replace(" ", "_") from character i on: a run of
\* characters that are no word characters becomes one "_"
RECURSIVE Slug(_, _, _)
Slug(query, i, in_run) ==
    IF i > Len(query) THEN <<>>
    ELSE IF query[i] \in Punctuation \cup Whitespace
         THEN (IF in_run THEN <<>> ELSE <<"_">>) \o Slug(query, i + 1, TRUE)
         ELSE <<query[i]>> \o Slug(query, i + 1, FALSE)

\* the dict search builds from the candidates and their scores
Results(matching_docs, dict_score, limit) ==
    ("Total number of documents" :> Len(products_list))
    @@ ("Number of documents after filtering" :> Cardinality(matching_docs))
    @@ ("Products" :> ProductsLoop(Slice(SortedByScore(dict_score, 1, <<>>), limit), 1))

-----------------------------------------------------------------------------
(* SearchEngine: the query methods on a loaded engine. *)

MaxLimit == 3
MaxQueryTextLen == 3

\* the queries typed in
QueryTexts == StringsUpTo({"b", "c", "A", " "}, MaxQueryTextLen)

\* the engines load_indexes leaves: every file read, one file missing, or
\* a review record without a mean
RankEngines ==
    {LoadedEngine}
    \cup {[LoadedEngine EXCEPT ![AttributeOf(name)] = <<>>, !.unset = {name}] :
            name \in ArtifactNames}
    \cup {[LoadedEngine EXCEPT !.reviews_index[Ids[2]].mean_mark = None]}

RankCalls ==
    [op : {"search"}, args : QueryTexts \X (0..MaxLimit)]
    \cup [op : {"get_matching_docs"}, args : {<<query>> : query \in QueryTexts}]
    \cup [op : {"rank_docs"}, args : QueryTexts \X SUBSET Range(Ids)]
    \cup [op : {"get_custom_score"}, args : QueryTexts \X Range(Ids)]
    \cup [op : {"compute_bm25"},
          args : Queries \X Range(Corpus) \X (IndexNames \cup {"price"})]
    \cup FilterCalls
    \cup SynonymCalls

\* the calls made after another call has returned
LaterCalls ==
    {[op |-> "search", args |-> <<<<"b">>, 1>>],
     [op |-> "rank_docs", args |-> <<<<"c">>, {Ids[1], Ids[3]}>>],
     [op |-> "get_matching_docs", args |-> <<<<"b", " ", "c">>>>],
     [op |-> "filter_total_match", args |-> <<<<<<"b">>, <<"c">>>>, "origin">>]}

\* search_engine.get_matching_docs(query) runs
GetMatchingDocs ==
    /\ call.op = "get_matching_docs"
    /\ ret = Pending
    /\ LET expanded == get_query_tokens_with_synonyms(call.args[1])
       IN  IF expanded.status = "raise" THEN ret' = expanded
           ELSE \E query_tokens \in expanded.value :
                   ret' = MatchingDocs(query_tokens)
    /\ UNCHANGED <<crawler_vars, indexer_vars, engine_vars, file_vars, call>>

\* search_engine.get_custom_score(query, doc_id) runs
GetCustomScore ==
    /\ call.op = "get_custom_score"
    /\ ret = Pending
    /\ LET expanded == get_query_tokens_with_synonyms(call.args[1])
       IN  IF expanded.status = "raise" THEN ret' = expanded
           ELSE \E query_tokens \in expanded.value :
                   ret' = CustomScore(query_tokens, call.args[2])
    /\ UNCHANGED <<crawler_vars, indexer_vars, engine_vars, file_vars, call>>

\* search_engine.compute_bm25(query_tokens, product, doc_field) runs
ComputeBm25 ==
    /\ call.op = "compute_bm25"
    /\ ret = Pending
    /\ ret' = compute_bm25(call.args[1], call.args[2], call.args[3])
    /\ UNCHANGED <<crawler_vars, indexer_vars, engine_vars, file_vars, call>>

\* search_engine.rank_docs(query, matching_docs) runs; the set gives its
\* documents in some order
RankDocs ==
    /\ call.op = "rank_docs"
    /\ ret = Pending
    /\ LET expanded == get_query_tokens_with_synonyms(call.args[1])
       IN  IF expanded.status = "raise" THEN ret' = expanded
           ELSE \E query_tokens \in expanded.value :
                \E docs \in Orderings(call.args[2]) :
                   ret' = RankLoop(query_tokens, docs, 1, <<>>)
    /\ UNCHANGED <<crawler_vars, indexer_vars, engine_vars, file_vars, call>>

\* search_engine.search(limit) runs, call.args[1] being the query read
\* from the terminal; the results are saved under the slug of the query
Search ==
    /\ call.op = "search"
    /\ ret = Pending
    /\ LET query == call.args[1]
           limit == call.args[2]
           expanded == get_query_tokens_with_synonyms(query)
       IN  IF expanded.status = "raise"
           THEN ret' = expanded /\ UNCHANGED saved
           ELSE \E query_tokens \in expanded.value :
                LET matching_docs == MatchingDocs(query_tokens)
                IN  IF matching_docs.status = "raise"
                    THEN ret' = matching_docs /\ UNCHANGED saved
                    ELSE \E docs \in Orderings(matching_docs.value) :
                         LET dict_score == RankLoop(query_tokens, docs, 1, <<>>)
                             results == Results(matching_docs.value,
                                                dict_score.value, limit)
                         IN  IF dict_score.status = "raise"
                             THEN ret' = dict_score /\ UNCHANGED saved
                             ELSE /\ ret' = Return(results)
                                  /\ saved' = DictPut(saved, Slug(query, 1, FALSE),
                                                      results)
    /\ UNCHANGED <<crawler_vars, indexer_vars, engine_vars, files, call>>

\* the caller makes its next call
NextCall ==
    /\ ret # Pending
    /\ call' \in LaterCalls
    /\ ret' = Pending
    /\ UNCHANGED <<crawler_vars, indexer_vars, engine_vars, file_vars>>

\* a SearchEngine after __init__ and load_indexes, and a call of one of its
\* query methods
InitRank ==
    /\ NoCrawler
    /\ products_list = Corpus
    /\ call \in RankCalls
    /\ ret = Pending
    /\ saved = <<>>
    /\ \E engine \in RankEngines :
          /\ title_index = engine.title_index
          /\ description_index = engine.description_index
          /\ origin_index = engine.origin_index
          /\ reviews_index = engine.reviews_index
          /\ brand_index = engine.brand_index
          /\ domain_index = engine.domain_index
          /\ origin_synonyms = engine.origin_synonyms
          /\ unset = engine.unset
          /\ files = FilesOf(engine)

NextRank ==
    \/ GetTokenSynonyms
    \/ FilterPartialMatch
    \/ FilterTotalMatch
    \/ ComputeBm25
    \/ GetCustomScore
    \/ GetMatchingDocs
    \/ RankDocs
    \/ Search
    \/ NextCall

SpecRank == InitRank /\ [][NextRank]_vars

-----------------------------------------------------------------------------
(* Unknown names, unset indices, empty inputs. *)

\* C12: filter_partial_match and filter_total_match called with a name
\* outside {title, description, origin, reviews, brand, domain}, and
\* compute_bm25 called with a field outside {title, description, origin,
\* brand, domain}, end in a ValueError for every token sequence, the empty
\* one included, and return nothing.
C12_UnknownNameIsValueError ==
    /\ ret # Pending
    /\ \/ /\ call.op \in {"filter_partial_match", "filter_total_match"}
          /\ call.args[2] \notin {"title", "description", "origin", "reviews",
                                  "brand", "domain"}
       \/ /\ call.op = "compute_bm25"
          /\ call.args[3] \notin {"title", "description", "origin", "brand",
                                  "domain"}
    => ret = Raise("ValueError")

\* BM25 over the reviews index, which the filters accept, with no token
C12_Witness ==
    /\ call.op = "compute_bm25"
    /\ call.args[1] = <<>>
    /\ call.args[3] = "reviews"
    /\ ret = Raise("ValueError")

\* C14: when load_indexes left an index unset, every later call of
\* filter_partial_match, filter_total_match, compute_bm25 or
\* get_custom_score that uses this index behaves as if the index were empty
\* and does not raise: the filters return set(), compute_bm25 returns 0.
C14_UnsetIndexReadsAsEmpty ==
    /\ ret # Pending
    /\ \/ /\ call.op \in {"filter_partial_match", "filter_total_match"}
          /\ call.args[2] \in unset
       \/ /\ call.op = "compute_bm25"
          /\ call.args[3] \in unset
       \/ /\ call.op = "get_custom_score"
          /\ unset \cap {"title", "description", "reviews"} # {}
    => /\ ret.status = "return"
       /\ call.op \in {"filter_partial_match", "filter_total_match"}
              => ret.value = {}
       /\ call.op = "compute_bm25" => ret.value = 0

\* a review record as the claim describes it: no review and a null mean
ZeroReviews(doc_id) ==
    /\ doc_id \in DOMAIN reviews_index
    /\ reviews_index[doc_id].total_reviews = 0
    /\ reviews_index[doc_id].mean_mark = None

\* C15: on a loaded engine empty inputs raise nothing: a query of no token
\* gives get_matching_docs an empty set, rank_docs on the empty set returns
\* the empty mapping, search returns an empty product list; and a candidate
\* with no review (total_reviews 0 and a null mean in the review index) is
\* scored by get_custom_score and rank_docs without an error.
C15_EmptyInputsNeverRaise ==
    ret # Pending /\ unset = {} =>
        /\ call.op = "get_matching_docs" /\ tokenize(call.args[1]) = <<>>
               => ret = Return({})
        /\ call.op = "rank_docs" /\ call.args[2] = {}
               => ret = Return(<<>>)
        /\ call.op = "search" /\ tokenize(call.args[1]) = <<>>
               => ret.status = "return" /\ ret.value["Products"] = <<>>
        /\ call.op = "get_custom_score" /\ ZeroReviews(call.args[2])
               => ret.status = "return"
        /\ call.op = "rank_docs" /\ (\E doc_id \in call.args[2] : ZeroReviews(doc_id))
               => ret.status = "return"

-----------------------------------------------------------------------------
(* Search results and candidates. *)

\* the scores rank_docs gives the candidates for the expanded query, by
\* document
ScoreOf(query_tokens, candidates) ==
    LET docs == CHOOSE l \in Orderings(candidates) : TRUE
        dict_score == RankLoop(query_tokens, docs, 1, <<>>).value
    IN  [doc_id \in candidates |->
            dict_score[CHOOSE k \in DOMAIN dict_score : dict_score[k].id = doc_id].score]

\* C16: for every query and every limit >= 0, a search that returns gives
\* exactly min(limit, number of candidates) products; each is a candidate,
\* listed once, with its rank score; the scores do not increase along the
\* list, so the higher of two different scores comes first; and no
\* candidate left out has a strictly higher score than a returned one.
C16_SearchReturnsTopLimit ==
    call.op = "search" /\ ret.status = "return" =>
        LET limit == call.args[2]
            products == ret.value["Products"]
        IN  \E query_tokens \in get_query_tokens_with_synonyms(call.args[1]).value :
                LET candidates == MatchingDocs(query_tokens).value
                    score == ScoreOf(query_tokens, candidates)
                    returned == {products[k].id : k \in DOMAIN products}
                IN  /\ ret.value["Number of documents after filtering"]
                           = Cardinality(candidates)
                    /\ Len(products) = IF limit <= Cardinality(candidates)
                                       THEN limit ELSE Cardinality(candidates)
                    /\ \A k \in DOMAIN products :
                           /\ products[k].id \in candidates
                           /\ products[k].score = score[products[k].id]
                           /\ products[k] = to_json(get_product_by_id(products[k].id),
                                                    products[k].score)
                    /\ \A k, m \in DOMAIN products :
                           k < m => /\ products[k].id # products[m].id
                                    /\ products[k].score >= products[m].score
                    /\ \A doc_id \in candidates \ returned :
                           \A k \in DOMAIN products :
                               score[doc_id] <= products[k].score

\* three candidates of three different scores, cut to the best two
C16_Witness ==
    /\ call = [op |-> "search", args |-> <<<<"c">>, 2>>]
    /\ ret.status = "return"
    /\ ret.value["Number of documents after filtering"] = 3
    /\ Len(ret.value["Products"]) = 2
    /\ ret.value["Products"][1].score > ret.value["Products"][2].score
    /\ \E doc_id \in Range(Ids) :
           /\ doc_id \notin {ret.value["Products"][k].id : k \in 1..2}
           /\ ScoreOf(<<<<"c">>>>, Range(Ids))[doc_id] < ret.value["Products"][2].score

\* C17: on a loaded engine get_matching_docs(query) returns exactly the
\* union of: filter_total_match([t], "brand") and filter_total_match([t],
\* "origin") for every expanded token t, filter_total_match on "origin" and
\* on "domain" for the whole expanded sequence, and filter_partial_match on
\* "title" and on "description" for the whole expanded sequence.
C17_CandidatesAreTheUnion ==
    call.op = "get_matching_docs" /\ unset = {} /\ ret # Pending =>
        /\ ret.status = "return"
        /\ \E query_tokens \in get_query_tokens_with_synonyms(call.args[1]).value :
               ret.value =
                   UNION {filter_total_match(<<query_tokens[k]>>, "brand").value
                          \cup filter_total_match(<<query_tokens[k]>>, "origin").value :
                            k \in DOMAIN query_tokens}
                   \cup filter_total_match(query_tokens, "origin").value
                   \cup filter_total_match(query_tokens, "domain").value
                   \cup filter_partial_match(query_tokens, "title").value
                   \cup filter_partial_match(query_tokens, "description").value

\* "bb" is the brand of z and a word of no title and of no description
C17_Witness ==
    /\ call = [op |-> "get_matching_docs", args |-> <<<<"b", "b">>>>]
    /\ unset = {}
    /\ filter_partial_match(<<<<"b", "b">>>>, "title") = Return({})
    /\ filter_partial_match(<<<<"b", "b">>>>, "description") = Return({})
    /\ ret = Return({Ids[3]})

-----------------------------------------------------------------------------
(* BM25 and term frequency. *)

MaxExtraFreq == 3

\* the BM25 score of the field of the product when the term `term` occurs
\* `extra` times more in it, the length of the field, the average length
\* and the index staying what they are: the sum from token i on
RECURSIVE Bm25Raised(_, _, _, _, _, _)
Bm25Raised(query_tokens, product, doc_field, term, extra, i) ==
    IF i > Len(query_tokens) THEN 0
    ELSE LET token == query_tokens[i]
             index == IndexNamed(doc_field)
             lengths == doc_field \in {"title", "description"}
             doc_length == IF lengths THEN Fx(get_doc_length(product[doc_field]))
                           ELSE Fx(1)
             avg_doc_length == IF lengths THEN get_avg_doc_length(doc_field).value
                               ELSE Fx(1)
             doc_freq == Cardinality(Iterated(doc_field, index[token]))
             freq == get_freq(token, product.id, doc_field).value
                     + (IF token = term THEN extra ELSE 0)
         IN  (IF /\ token \in DOMAIN index
                 /\ product.id \in Iterated(doc_field, index[token])
              THEN Bm25Term(freq, doc_freq, Len(products_list), doc_length,
                            avg_doc_length)
              ELSE 0)
             + Bm25Raised(query_tokens, product, doc_field, term, extra, i + 1)

\* C18: the list of query terms, the field, the length of the document, the
\* average length and the document frequencies being fixed, the score of
\* compute_bm25 does not decrease when a query term occurs once more in the
\* field of the document.
C18_Bm25GrowsWithFrequency ==
    call.op = "compute_bm25" /\ ret.status = "return" =>
        LET query_tokens == call.args[1]
            product == call.args[2]
            doc_field == call.args[3]
        IN  /\ ret.value = Bm25Raised(query_tokens, product, doc_field, <<>>, 0, 1)
            /\ \A term \in Range(query_tokens) :
               \A extra \in 0..(MaxExtraFreq - 1) :
                   Bm25Raised(query_tokens, product, doc_field, term, extra + 1, 1)
                   >= Bm25Raised(query_tokens, product, doc_field, term, extra, 1)

\* c is in every title, so its idf is the lowest there is; the score still
\* rises with a second c in the title of x
C18_Witness ==
    /\ call = [op |-> "compute_bm25",
               args |-> <<<<<<"b">>, <<"c">>>>, Corpus[1], "title">>]
    /\ unset = {}
    /\ ret.status = "return"
    /\ ret.value > 0
    /\ Bm25Raised(call.args[1], Corpus[1], "title", <<"c">>, 1, 1) > ret.value

-----------------------------------------------------------------------------
(* Tokenization, again. *)

\* C19: tokenize is deterministic and idempotent: a second tokenize of the
\* same text gives the same tokens, and tokenize of the tokens joined by
\* single spaces gives these tokens back.
C19_TokenizeIsIdempotent ==
    call.op = "tokenize" /\ ret # Pending =>
        /\ ret.status = "return"
        /\ tokenize(call.args[1]) = ret.value
        /\ tokenize(Join(ret.value)) = ret.value

\* the text loses its comma, its capital and a blank; its tokens lose nothing
C19_Witness ==
    /\ call = [op |-> "tokenize", args |-> <<<<"b", ",", " ", " ", "A">>>>]
    /\ ret = Return(<<<<"b">>>>)
    /\ Join(ret.value) # call.args[1]
    /\ tokenize(Join(ret.value)) = <<<<"b">>>>

-----------------------------------------------------------------------------
(* The query methods only read. *)

\* C20: after any sequence of get_matching_docs, filter_partial_match,
\* filter_total_match, compute_bm25, get_custom_score, rank_docs and search
\* calls, the title, description, origin, reviews, brand and domain indices,
\* the synonym table and the document store are what they were before it:
\* no step of a query method changes any of them.
C20_QueriesOnlyRead ==
    [][/\ products_list' = products_list
       /\ title_index' = title_index
       /\ description_index' = description_index
       /\ origin_index' = origin_index
       /\ reviews_index' = reviews_index
       /\ brand_index' = brand_index
       /\ domain_index' = domain_index
       /\ origin_synonyms' = origin_synonyms
       /\ unset' = unset]_vars

\* a search has saved its results, a later rank_docs has returned, and the
\* engine and the store are the loaded ones
C20_Witness ==
    /\ saved # <<>>
    /\ call.op = "rank_docs"
    /\ ret.status = "return"
    /\ ret.value # <<>>
    /\ CurrentEngine = LoadedEngine
    /\ products_list = Corpus

-----------------------------------------------------------------------------
(* The custom score. *)

\* the early-position boost of a field as the minimum rule gives it:
\* 100 / (1 + p), p the least first position over the query terms that
\* match the document in the field, and 0 when no term matches
MinimumBoost(query_tokens, doc_id, index) ==
    LET matched == {k \in DOMAIN query_tokens :
                       /\ query_tokens[k] \in DOMAIN index
                       /\ doc_id \in DOMAIN index[query_tokens[k]]}
        first == {FirstPosition(index[query_tokens[k]][doc_id]) : k \in matched}
    IN  IF matched = {} THEN 0
        ELSE Div(Fx(100), Fx(1 + (CHOOSE p \in first : \A q \in first : p <= q)))

\* C23: in get_custom_score the early-position boost of the title and of
\* the description is computed from the minimum position over all the query
\* terms that match the document in the field, whatever the order of the
\* terms: the score is the match counts, the review part and 0.4 and 0.6
\* times these boosts.
C23_BoostUsesMinimumPosition ==
    call.op = "get_custom_score" /\ ret.status = "return" =>
        \E query_tokens \in get_query_tokens_with_synonyms(call.args[1]).value :
            LET doc_id == call.args[2]
                review_data == reviews_index[doc_id]
            IN  ret.value =
                    Fx(MatchCount(query_tokens, doc_id, title_index) * 2
                       + MatchCount(query_tokens, doc_id, description_index))
                    + Mul(Number(review_data.mean_mark), Fx(2))
                    + math_log(Fx(1 + review_data.total_reviews))
                    + Mul(MinimumBoost(query_tokens, doc_id, title_index),
                          (4 * Scale) \div 10)
                    + Mul(MinimumBoost(query_tokens, doc_id, description_index),
                          (6 * Scale) \div 10)

-----------------------------------------------------------------------------
(* BM25 on the single-valued fields. *)

RECURSIVE IdfSum(_, _, _, _)
\* the sum of the idf of the query terms, from the i-th on, that the index
\* of the field lists for the document
IdfSum(query_tokens, doc_id, doc_field, i) ==
    IF i > Len(query_tokens) THEN 0
    ELSE LET token == query_tokens[i]
             index == IndexNamed(doc_field)
         IN  (IF token \in DOMAIN index /\ doc_id \in Range(index[token])
              THEN Idf(Len(products_list), Len(index[token]))
              ELSE 0)
             + IdfSum(query_tokens, doc_id, doc_field, i + 1)

\* C24: on a single-valued field (origin, brand, domain) every query term
\* the index of the field lists for the document adds exactly its idf to
\* compute_bm25 (frequency 1, lengths 1/1), so the score of the field is
\* strictly positive whenever one query term at least is indexed for the
\* document in the field.
C24_SingleValuedFieldScoresIdf ==
    /\ call.op = "compute_bm25"
    /\ call.args[3] \in {"origin", "brand", "domain"} \ unset
    /\ ret # Pending
    => LET query_tokens == call.args[1]
           doc_id == call.args[2].id
           index == IndexNamed(call.args[3])
       IN  /\ ret = Return(IdfSum(query_tokens, doc_id, call.args[3], 1))
           /\ (\E k \in DOMAIN query_tokens :
                  /\ query_tokens[k] \in DOMAIN index
                  /\ doc_id \in Range(index[query_tokens[k]]))
              => ret.value > 0

-----------------------------------------------------------------------------
(* The reviews index and the filters. *)

\* C25: the reviews index is left out of the match operations: for every
\* index name the filters accept and every token sequence, each element
\* filter_partial_match and filter_total_match return is the id of a
\* document, and a call naming "reviews" looks no token up in the review
\* index and returns no field name of a review record: it returns set().
C25_ReviewsAreNotMatched ==
    /\ call.op \in {"filter_partial_match", "filter_total_match"}
    /\ call.args[2] \in IndexNames \ unset
    /\ ret # Pending
    => /\ ret.status = "return"
       /\ IF call.args[2] = "reviews"
          THEN ret.value = {}
          ELSE ret.value \subseteq Range(Ids)

-----------------------------------------------------------------------------
(***************************************************************************)
(* The crawler (src/crawler.py).                                           *)
(*                                                                         *)
(* A URL is a str.  The site is the environment: what a GET answers is     *)
(* drawn when the request is made, so that every link graph over Urls is   *)
(* covered, and robots.txt, read once by __init__, is the set `disallowed` *)
(* of URLs that parser.can_fetch refuses.  The hrefs of a page are         *)
(* absolute URLs, which urljoin leaves as they are.  crawl() is one call   *)
(* on a Crawler just constructed; a step of the model is one iteration of  *)
(* its while loop, or what follows the loop.                               *)
(***************************************************************************)

MaxPages == 3

\* the URLs of the site; the second and the third hold the priority word
Urls == {<<"u">>, <<"p">>, <<"u", "p">>}

priority_word == <<"p">>

\* Python's `sub in s` on two str
IsSubstring(sub, s) ==
    \E i \in 0..(Len(s) - Len(sub)) : SubSeq(s, i + 1, i + Len(sub)) = sub

\* what the server may answer to requests.get(url, timeout=5): the page of
\* the URL with any <a href>, or an error status; the page of the first URL
\* has neither <title> nor <p>
Responses(url) ==
    {[status_code |-> 200,
      title |-> IF url = <<"u">> THEN None ELSE PyStr(<<"t">>),
      p |-> IF url = <<"u">> THEN None ELSE PyStr(url),
      hrefs |-> hrefs] : hrefs \in SUBSET Urls}
        \cup {[status_code |-> 404, title |-> None, p |-> None, hrefs |-> {}]}

\* crawler.is_allowed_to_crawl(url)
is_allowed_to_crawl(url) == url \notin disallowed

\* crawler.parse_html(url), response being what the server answered
parse_html(response) ==
    IF response.status_code # 200 THEN None ELSE response

\* crawler.extract_page_content(url), `links` being the order in which
\* list(set(links)) lists the hrefs of the page
extract_page_content(url, response, links) ==
    LET soup == parse_html(response)
    IN  IF soup = None THEN Raise("AttributeError")
        ELSE Return([title |-> IF soup.title # None THEN soup.title.v ELSE <<>>,
                     url |-> url,
                     first_paragraph |-> IF soup.p # None THEN soup.p.v ELSE <<>>,
                     links |-> links])

\* [link for link in links if self.priority_word in link], from the i-th on
RECURSIVE PriorityLinks(_, _)
PriorityLinks(links, i) ==
    IF i > Len(links) THEN <<>>
    ELSE (IF IsSubstring(priority_word, links[i]) THEN <<links[i]>> ELSE <<>>)
             \o PriorityLinks(links, i + 1)

\* [link for link in links if self.priority_word not in link]
RECURSIVE OtherLinks(_, _)
OtherLinks(links, i) ==
    IF i > Len(links) THEN <<>>
    ELSE (IF ~IsSubstring(priority_word, links[i]) THEN <<links[i]>> ELSE <<>>)
             \o OtherLinks(links, i + 1)

\* the queue after `for link in reversed(priority_links): appendleft(link)`
RECURSIVE AppendLeftReversed(_, _, _)
AppendLeftReversed(q, priority_links, i) ==
    IF i = 0 THEN q
    ELSE AppendLeftReversed(<<priority_links[i]>> \o q, priority_links, i - 1)

\* the queue after the links of a page were added to it
Enqueue(q, links) ==
    LET priority_links == PriorityLinks(links, 1)
        other_links == OtherLinks(links, 1)
    IN  AppendLeftReversed(q, priority_links, Len(priority_links))
            \o other_links

\* a test of line 101 that finds no URL visited
NeverVisited(url, visited) == FALSE

\* `url in self.visited_urls`
AlreadyVisited(url, visited) == url \in visited

\* a queue whose head is read and left in place
peek(q) == q

\* the queue after self.queue.popleft()
popleft(q) == Tail(q)

\* the condition of the while loop
Looping == queue # <<>> /\ pages_visited < max_pages

\* output/results.json after save_results(results)
save_results(written, res) == Append(written, res)

\* one iteration of the while loop of crawl()
CrawlIteration ==
    /\ call.op = "crawl"
    /\ ret = Pending
    /\ Looping
    /\ LET url == Head(queue)
           popped == popleft(queue)
           allowed == is_allowed_to_crawl(url)
       IN  IF AlreadyVisited(url, visited_urls)
           THEN /\ queue' = popped
                /\ UNCHANGED <<pages_visited, visited_urls, crawl_results,
                               fetched, ret>>
           ELSE \E response \in Responses(url) : \E links \in Orderings(response.hrefs) :
                   LET content == extract_page_content(url, response, links)
                   IN  /\ fetched' = Append(fetched, url)
                       /\ IF content.status = "raise"
                          THEN /\ ret' = content
                               /\ queue' = popped
                               /\ UNCHANGED <<pages_visited, visited_urls,
                                              crawl_results>>
                          ELSE /\ crawl_results' = Append(crawl_results, content.value)
                               /\ pages_visited' = pages_visited + 1
                               /\ visited_urls' = visited_urls \cup {url}
                               /\ queue' = Enqueue(popped, content.value.links)
                               /\ ret' = ret
    /\ UNCHANGED <<max_pages, disallowed, output, indexer_vars, engine_vars,
                   file_vars, call>>

\* the end of crawl(): the loop is over and the results are saved
CrawlSave ==
    /\ call.op = "crawl"
    /\ ret = Pending
    /\ ~Looping
    /\ output' = save_results(output, crawl_results)
    /\ ret' = Return(None)
    /\ UNCHANGED <<max_pages, pages_visited, visited_urls, queue, disallowed,
                   crawl_results, fetched, indexer_vars, engine_vars,
                   file_vars, call>>

\* Crawler(url, max_pages) was constructed and crawl() is called
InitCrawler ==
    /\ products_list = <<>>
    /\ EngineInit
    /\ files = <<>>
    /\ saved = <<>>
    /\ max_pages \in 1..MaxPages
    /\ pages_visited = 0
    /\ visited_urls = {}
    /\ queue \in {<<url>> : url \in Urls}
    /\ disallowed \in SUBSET Urls
    /\ crawl_results = <<>>
    /\ fetched = <<>>
    /\ output = <<>>
    /\ call = [op |-> "crawl", args |-> <<>>]
    /\ ret = Pending

NextCrawler == CrawlIteration \/ CrawlSave

SpecCrawler == InitCrawler /\ [][NextCrawler]_vars

\* crawl() is sequential code and every request has a timeout: the call
\* goes on as long as it has a step to take
FairSpecCrawler == SpecCrawler /\ WF_vars(NextCrawler)

-----------------------------------------------------------------------------
(* The crawler and robots.txt. *)

\* C21: during crawl(), a URL that is_allowed_to_crawl refuses is never
\* requested from the server, never recorded in the results and never
\* counted among the pages visited.
C21_DisallowedNeverFetched ==
    call.op = "crawl" =>
        \A url \in Urls :
            ~is_allowed_to_crawl(url) =>
                /\ url \notin Range(fetched)
                /\ \A i \in DOMAIN crawl_results : crawl_results[i].url # url
                /\ url \notin visited_urls

-----------------------------------------------------------------------------
(* The counters of the crawl. *)

\* C22: in every state of crawl(), pages_visited is at most max_pages and is
\* both the number of results recorded and the number of visited URLs, and
\* no URL is requested or recorded twice, however often it was queued.
C22_CountersAgree ==
    call.op = "crawl" =>
        /\ pages_visited <= max_pages
        /\ pages_visited = Len(crawl_results)
        /\ pages_visited = Cardinality(visited_urls)
        /\ \A i, j \in DOMAIN fetched : i # j => fetched[i] # fetched[j]
        /\ \A i, j \in DOMAIN crawl_results :
               i # j => crawl_results[i].url # crawl_results[j].url
        /\ visited_urls = {crawl_results[i].url : i \in DOMAIN crawl_results}

\* a URL that was queued twice and visited once was taken from the queue a
\* second time, with room left for more pages
C22_Witness ==
    /\ call.op = "crawl"
    /\ pages_visited >= 1
    /\ pages_visited < max_pages
    /\ Len(fetched) = pages_visited
    /\ queue = <<>>
    /\ \E i \in DOMAIN crawl_results :
           crawl_results[i].url \in Range(crawl_results[i].links)

-----------------------------------------------------------------------------
(* The end of the crawl. *)

\* an iteration of the loop that ends without an exception
LoopStep ==
    /\ call.op = "crawl"
    /\ ret = Pending
    /\ ret' = Pending
    /\ queue' # queue

\* C26: when no request fails, crawl() ends; an iteration either records the
\* page of a URL not visited before or drops one visited entry from the
\* queue; the loop is left with the queue empty or max_pages pages visited;
\* and the results are saved once, after the loop.
C26_CrawlTerminates ==
    /\ [][LoopStep =>
            \/ /\ Head(queue) \notin visited_urls
               /\ visited_urls' = visited_urls \cup {Head(queue)}
               /\ Len(crawl_results') = Len(crawl_results) + 1
               /\ crawl_results'[Len(crawl_results')].url = Head(queue)
            \/ /\ Head(queue) \in visited_urls
               /\ queue' = Tail(queue)
               /\ UNCHANGED <<visited_urls, crawl_results, pages_visited,
                              fetched>>]_vars
    /\ [](call.op = "crawl" =>
            /\ ret = Pending => output = <<>>
            /\ ret.status = "raise" => output = <<>>
            /\ ret.status = "return" =>
                   /\ queue = <<>> \/ pages_visited >= max_pages
                   /\ output = <<crawl_results>>)
    /\ ([](ret.status # "raise") => <>(ret.status = "return"))

\* a crawl that recorded pages, dropped a visited entry and was stopped by
\* max_pages with URLs left in the queue has ended and saved its results
C26_Witness ==
    /\ call.op = "crawl"
    /\ ret.status = "return"
    /\ Len(output) = 1
    /\ pages_visited = max_pages
    /\ max_pages >= 2
    /\ queue # <<>>
    /\ \E i \in DOMAIN crawl_results :
           /\ i < Len(crawl_results)
           /\ IsSubstring(priority_word, crawl_results[i].url)
           /\ crawl_results[i].links # <<>>
           /\ \A k \in DOMAIN crawl_results[i].links :
                  crawl_results[i].links[k] = crawl_results[i].url

=============================================================================
